---- MODULE Spec2Model ----
(***************************************************************************)
(* Multi-source resolution pipeline of Prompt2Insight (p2i-frontend).      *)
(*                                                                         *)
(* The model follows the latest snapshot of the intent router              *)
(* (useIntentRouter: Google Search -> scraper -> Gemini), the three        *)
(* adapter hooks it calls (useGoogleSearch, useScraperAgent,               *)
(* useGeminiAgent) and the dashboard handler that turns the answer of the  *)
(* central query endpoint into result envelopes for the UI.                *)
(*                                                                         *)
(* JavaScript objects are TLA+ records; an absent (undefined) property is  *)
(* a field that is not in the DOMAIN of the record.                        *)
(***************************************************************************)
EXTENDS Integers, Sequences, FiniteSets, TLC

\* ------------------------------------------------------------------ bounds
MaxProducts == 2      \* longest product list of a parsed prompt
MaxItems == 2         \* longest item list a backend answers with
MaxClicks == 2        \* clicks on "Search Amazon" of one page visit

\* --------------------------------------------------------- JavaScript glue
EmptyObj == [f \in {} |-> ""]          \* the object literal {}

Has(o, f) == f \in DOMAIN o

\* o[f] || d  for string-valued properties ("" and undefined are falsy)
OrElse(o, f, d) == IF Has(o, f) /\ o[f] # "" THEN o[f] ELSE d

\* { ...a, ...b }
Spread(a, b) == [k \in (DOMAIN a) \cup (DOMAIN b) |-> IF k \in DOMAIN b THEN b[k] ELSE a[k]]

Returned(v) == [kind |-> "return", value |-> v]
Thrown(m) == [kind |-> "throw", message |-> m]

\* ------------------------------------------------------------------ inputs
Intents == {"compare", "search", "recommend"}

AllProducts == <<"iPhone 14", "Poco X5", "Galaxy S23", "Pixel 8">>

ProductLists == {SubSeq(AllProducts, 1, n) : n \in 0..MaxProducts}

\* filters / attributes of a parsed prompt; a null one is an absent field
\* (the code only tests them for truthiness).
PromptExtras == {EmptyObj,
                 [filters |-> [price |-> "", brand |-> "Apple"], attributes |-> <<>>],
                 [filters |-> [price |-> "under 20000"], attributes |-> <<"battery">>]}

\* ParsedPrompt (types).  A prompt without a products array is what the
\* parse endpoint hands over when it answers with a malformed body.
ParsedPrompts ==
    {Spread([intent |-> i, products |-> ps], x) : i \in Intents, ps \in ProductLists, x \in PromptExtras}
      \cup {[intent |-> i] : i \in Intents}

Prompts == {"compare iPhone 14 and Poco X5"}

SessionIds == {"s1"}

\* Raw items of the three backends.
GoogleItem(i) == [title |-> AllProducts[i], url |-> "https://shop.example/p", source |-> "google"]

\* ("Rs" stands for the rupee sign)
ScrapedTitles == <<"iPhone 14", "Poco X5 5G", "Galaxy S23", "Pixel 8">>

ScrapedPrices == <<"Rs 59999", "Rs 16999", "Rs 74999", "Rs 75999">>

ScraperItem(i) == [title |-> ScrapedTitles[i], price |-> ScrapedPrices[i]]

AIItems == <<[name |-> "Phone X", url |-> "https://www.flipkart.com/x", price |-> "Rs 15,999"],
             EmptyObj,
             [name |-> "", rating |-> "4.1", description |-> "budget phone"],
             [name |-> "Phone Y", image |-> "/y.jpg"]>>

GoogleList(n) == [i \in 1..n |-> GoogleItem(i)]

ScraperList(n) == [i \in 1..n |-> ScraperItem(i)]

AIList(n) == [i \in 1..n |-> AIItems[i]]

Null == [null |-> TRUE]                \* the JSON value null where an object is expected

\* A fetch either rejects (network error, timeout) or resolves to a response
\* with an ok flag; a response whose body is not JSON has no body field.
Rejections == {[kind |-> "reject", reason |-> r] : r \in {"network", "timeout"}}

GoogleResponses ==
    Rejections
      \cup {[kind |-> "response", ok |-> FALSE, body |-> [detail |-> "quota exceeded"]],
            [kind |-> "response", ok |-> FALSE],
            [kind |-> "response", ok |-> TRUE],
            [kind |-> "response", ok |-> TRUE, body |-> [success |-> FALSE, message |-> "quota exceeded"]],
            [kind |-> "response", ok |-> TRUE, body |-> [success |-> TRUE]]}
      \cup {[kind |-> "response", ok |-> TRUE, body |-> [success |-> TRUE, results |-> GoogleList(n)]] : n \in 0..MaxItems}

\* Nested "data" arrays of the scraper backend; every entry is tagged with
\* the case the code distinguishes (null, an array, an object with a results
\* array, an object with a products array, any other object).
DataLists == {<<>>, <<[t |-> "null"]>>, <<[t |-> "products", items |-> <<>>]>>,
              <<[t |-> "object", item |-> EmptyObj]>>,
              <<[t |-> "results", items |-> ScraperList(1)], [t |-> "array", items |-> ScraperList(MaxItems)]>>}

ScraperBodies ==
    {[success |-> FALSE, message |-> "quota exceeded"], [success |-> TRUE],
     [success |-> TRUE, results |-> <<EmptyObj>>]}
      \cup {[success |-> TRUE, results |-> ScraperList(n)] : n \in 0..MaxItems}
      \cup {[success |-> TRUE, data |-> d] : d \in DataLists}
      \cup {[success |-> TRUE, products |-> ScraperList(n)] : n \in {0, MaxItems}}

ScraperResponses ==
    Rejections
      \cup {[kind |-> "response", ok |-> FALSE, body |-> [detail |-> "scraper busy"]],
            [kind |-> "response", ok |-> TRUE]}
      \cup {[kind |-> "response", ok |-> TRUE, body |-> b] : b \in ScraperBodies}

GeminiBodies ==
    {EmptyObj, [suggestions |-> <<AIItems[1], Null>>]}
      \cup {[suggestions |-> AIList(n)] : n \in 0..MaxItems}

GeminiResponses ==
    Rejections
      \cup {[kind |-> "response", ok |-> FALSE, body |-> [error |-> "quota exceeded"]],
            [kind |-> "response", ok |-> TRUE]}
      \cup {[kind |-> "response", ok |-> TRUE, body |-> b] : b \in GeminiBodies}

\* ------------------------------------------------------- routerAgent.ts
\* One ScrapeTask of buildScrapeInstructions.
BuildTask(parsedPrompt, product) ==
    LET baseTask == [productName |-> product,
                     site |-> "flipkart",
                     taskType |-> IF parsedPrompt.intent = "compare" THEN "detail" ELSE "listing"]
        f == parsedPrompt.filters
        withFilters ==
            IF Has(parsedPrompt, "filters")
            THEN Spread(baseTask,
                        [filters |-> Spread(IF OrElse(f, "price", "") # "" THEN [price |-> f.price] ELSE EmptyObj,
                                            IF OrElse(f, "brand", "") # "" THEN [brand |-> f.brand] ELSE EmptyObj)])
            ELSE baseTask
    IN  IF Has(parsedPrompt, "attributes") /\ Len(parsedPrompt.attributes) > 0
        THEN Spread(withFilters, [attributes |-> parsedPrompt.attributes])
        ELSE withFilters

\* parsedPrompt.products.map(...): a TypeError when products is undefined.
buildScrapeInstructions(parsedPrompt) ==
    IF ~Has(parsedPrompt, "products")
    THEN Thrown("Cannot read properties of undefined (reading 'map')")
    ELSE Returned([i \in 1..Len(parsedPrompt.products) |-> BuildTask(parsedPrompt, parsedPrompt.products[i])])

\* ------------------------------------------------------ useGoogleSearch
\* errorData of a non-ok response: response.json().catch(() => ({}))
ErrorData(resp) == IF Has(resp, "body") THEN resp.body ELSE EmptyObj

\* try block of searchProducts
SearchTry(resp) ==
    IF resp.kind = "reject" THEN Thrown("Failed to fetch")
    ELSE IF ~resp.ok
         THEN Thrown(OrElse(ErrorData(resp), "detail", OrElse(ErrorData(resp), "message", "API error")))
    ELSE IF ~Has(resp, "body") THEN Thrown("Unexpected token in JSON")
    ELSE IF ~(Has(resp.body, "success") /\ resp.body.success)
         THEN Thrown(OrElse(resp.body, "message", "Google search operation failed"))
    ELSE Returned(IF Has(resp.body, "results") THEN resp.body.results ELSE <<>>)

\* variant: a failed search answers with a placeholder result, as the Gemini hook does
searchProductsMockOnError(resp) ==
    IF SearchTry(resp).kind = "throw" THEN Returned(<<GoogleItem(1)>>) ELSE SearchTry(resp)

\* searchProducts: the catch block records the message and rethrows
searchProducts(resp) == SearchTry(resp)

SearchState(prev, out) ==
    IF out.kind = "return"
    THEN [isLoading |-> FALSE, error |-> "null", results |-> out.value]
    ELSE [isLoading |-> FALSE, error |-> OrElse(out, "message", "Failed to search Google"), results |-> prev.results]

\* ------------------------------------------------------- useGeminiAgent
getMockProducts ==
    <<[name |-> "Sample Product 1", url |-> "https://www.flipkart.com/sample-product-1",
       rating |-> "4.5", price |-> "Rs 15,999", description |-> "This is a fallback product suggestion."],
      [name |-> "Sample Product 2", url |-> "https://www.amazon.in/sample-product-2",
       rating |-> "4.2", price |-> "Rs 12,999", description |-> "Another fallback product when API fails."]>>

\* the object built for one suggestion
TransformSuggestion(item) ==
    [name |-> OrElse(item, "name", "Unknown Product"),
     url |-> OrElse(item, "url", "#"),
     rating |-> OrElse(item, "rating", "N/A"),
     price |-> OrElse(item, "price", "N/A"),
     image |-> OrElse(item, "image", "/placeholder-product.jpg"),
     description |-> OrElse(item, "description", "")]

\* try block of fetchGeminiSuggestions
GeminiTry(resp) ==
    IF resp.kind = "reject" THEN Thrown("Failed to fetch")
    ELSE IF ~resp.ok THEN Thrown(OrElse(ErrorData(resp), "error", "API error"))
    ELSE IF ~Has(resp, "body") THEN Thrown("Unexpected token in JSON")
    ELSE LET suggestions == IF Has(resp.body, "suggestions") THEN resp.body.suggestions ELSE <<>>
         IN  IF \E i \in 1..Len(suggestions) : Has(suggestions[i], "null")
             THEN Thrown("Cannot read properties of null (reading 'name')")
             ELSE Returned([i \in 1..Len(suggestions) |-> TransformSuggestion(suggestions[i])])

\* variant: the catch block answers with an empty list instead of mock data
GeminiCatchEmpty(err) == Returned(<<>>)

\* catch block of fetchGeminiSuggestions: mock data as a last resort
GeminiCatch(err) == Returned(getMockProducts)

fetchGeminiSuggestions(resp) ==
    IF GeminiTry(resp).kind = "throw" THEN GeminiCatch(GeminiTry(resp)) ELSE GeminiTry(resp)

\* variant: the catch block does not record the error
GeminiStateSilent(prev, resp) ==
    [isLoading |-> FALSE, error |-> "null",
     data |-> IF GeminiTry(resp).kind = "return" THEN <<GeminiTry(resp).value>> ELSE prev.data]

\* the state the hook leaves: setState of the try block or of the catch block
GeminiState(prev, resp) ==
    IF GeminiTry(resp).kind = "return"
    THEN [isLoading |-> FALSE, error |-> "null", data |-> <<GeminiTry(resp).value>>]
    ELSE [isLoading |-> FALSE,
          error |-> OrElse(GeminiTry(resp), "message", "Failed to fetch Gemini suggestions"),
          data |-> prev.data]

\* ------------------------------------------------------ useScraperAgent
\* the reducer over result.data
FlattenEntry(acc, taskResult) ==
    IF taskResult.t \in {"results", "products", "array"} THEN acc \o taskResult.items
    ELSE IF taskResult.t = "object" THEN acc \o <<taskResult.item>>
    ELSE acc

RECURSIVE FlattenData(_, _)
FlattenData(acc, data) ==
    IF data = <<>> THEN acc ELSE FlattenData(FlattenEntry(acc, Head(data)), Tail(data))

\* variant: only result.products is read
ExtractScrapedProductsOnly(result) ==
    IF Has(result, "products") THEN result.products ELSE <<>>

\* "Extract products from the response data"
ExtractScraped(result) ==
    IF Has(result, "results") THEN result.results
    ELSE IF Has(result, "data") THEN FlattenData(<<>>, result.data)
    ELSE IF Has(result, "products") THEN result.products
    ELSE <<>>

RECURSIVE MergeFilters(_)
MergeFilters(tasks) ==
    IF tasks = <<>> THEN EmptyObj
    ELSE Spread(IF Has(Head(tasks), "filters") THEN Head(tasks).filters ELSE EmptyObj,
                MergeFilters(Tail(tasks)))

\* the body fetchScrapedProducts posts to /scrape-structured
ScrapeRequest(tasks) ==
    [source |-> "scraper",
     intent |-> "search",
     products |-> [i \in 1..Len(tasks) |-> tasks[i].productName],
     max_products_per_query |-> 5,
     filters |-> MergeFilters(tasks)]

\* variant: a failed scrape answers with a placeholder item, as the Gemini hook does
fetchScrapedProductsMockOnError(resp) ==
    IF resp.kind = "response" /\ resp.ok /\ Has(resp, "body") /\ Has(resp.body, "success") /\ resp.body.success
    THEN Returned(ExtractScraped(resp.body))
    ELSE Returned(<<ScraperItem(1)>>)

\* try block of fetchScrapedProducts; its catch block rethrows
fetchScrapedProducts(resp) ==
    IF resp.kind = "reject" THEN Thrown("Failed to fetch")
    ELSE IF ~resp.ok
         THEN Thrown(OrElse(ErrorData(resp), "detail", OrElse(ErrorData(resp), "message", "API error")))
    ELSE IF ~Has(resp, "body") THEN Thrown("Unexpected token in JSON")
    ELSE IF ~(Has(resp.body, "success") /\ resp.body.success)
         THEN Thrown(OrElse(resp.body, "message", "Scraping operation failed"))
    ELSE Returned(ExtractScraped(resp.body))

ScraperState(prev, out) ==
    IF out.kind = "return"
    THEN [isLoading |-> FALSE, error |-> "null", data |-> <<out.value>>]
    ELSE [isLoading |-> FALSE, error |-> OrElse(out, "message", "Failed to fetch scraped products"), data |-> prev.data]

\* -------------------------------------------------------- useIntentRouter
VARIABLES
    pc,            \* where the running handler is suspended
    call,          \* arguments of the running routeUserIntent call
    scrapeTasks,   \* const scrapeTasks of routeUserIntent
    state,         \* IntentRouterState (useState of useIntentRouter)
    googleState,   \* GoogleSearchState
    scraperState,  \* ScraperAgentState
    geminiState,   \* GeminiAgentState
    sent,          \* adapter requests issued so far, in order
    inflight,      \* adapter requests not yet settled
    received,      \* settled adapter calls: source, response, outcome
    settled,       \* how the routeUserIntent promise settled
    taskLog,       \* scrape-task rows of the audit store
    loggedTasks,   \* const loggedTasks of fetchScrapedProducts
    auditUpdates,  \* updateScrapeTask requests issued, in order
    storage,       \* localStorage: usage counters
    page,          \* useState values of DashboardPage
    promptSessions, \* prompt-session rows of the audit store
    panel,         \* addResult calls received by the prompt panel, in order
    timers,        \* pending setTimeout callbacks
    toasts,        \* toast notifications shown, in order
    queries,       \* requests posted to the central query endpoint, in order
    hs,            \* the running handlePromptSubmit calls
    grid,          \* what ProductGrid rendered for the returned envelope
    card,          \* one mounted ProductCard: props, state, renders so far
    chart,         \* what ProductChart rendered for the card's product
    amazon,        \* useState values of MessagesArea and the Amazon requests it issued
    rs,            \* the locals of the routeUserIntent calls running side by side
    gridProps,     \* the props of a ProductGrid rendered on its own
    accounts       \* user rows, session tokens and role updates under way

routerVars == <<pc, call, scrapeTasks, state, googleState, scraperState, geminiState,
                sent, inflight, received, settled, taskLog, loggedTasks, auditUpdates>>

dashVars == <<storage, page, promptSessions, panel, timers, toasts, queries, hs>>

viewVars == <<grid, card, chart>>

extraVars == <<amazon, rs, gridProps, accounts>>

vars == <<routerVars, dashVars, viewVars, extraVars>>

\* the submissions of one page visit; each is one handlePromptSubmit call
Submissions == {"q1", "q2"}

\* the calls of one useIntentRouter instance that overlap in time
Calls == {"r1", "r2"}

\* the user rows of the database
Users == {"u1", "u2"}

Pending == [kind |-> "pending"]

InitRouter ==
    /\ pc = "idle"
    /\ call = EmptyObj
    /\ scrapeTasks = <<>>
    /\ state = [isLoading |-> FALSE, error |-> "null", result |-> <<>>]
    /\ googleState = [isLoading |-> FALSE, error |-> "null", results |-> <<>>]
    /\ scraperState = [isLoading |-> FALSE, error |-> "null", data |-> <<>>]
    /\ geminiState = [isLoading |-> FALSE, error |-> "null", data |-> <<>>]
    /\ sent = <<>>
    /\ inflight = {}
    /\ received = <<>>
    /\ settled = Pending
    /\ taskLog = <<>>
    /\ loggedTasks = <<>>
    /\ auditUpdates = <<>>

InitPage ==
    /\ page = [loading |-> FALSE, originalPrompt |-> "", result |-> <<>>, currentSessionId |-> <<>>, session |-> <<>>]
    /\ promptSessions = EmptyObj
    /\ panel = <<>>
    /\ timers = <<>>
    /\ toasts = <<>>
    /\ queries = <<>>
    /\ hs = [h \in Submissions |-> [pc |-> "idle"]]

\* nothing is rendered yet
InitView ==
    /\ grid = <<>>
    /\ card = EmptyObj
    /\ chart = <<>>

\* useState({}) of MessagesArea; nothing requested from Amazon yet
InitMessages ==
    /\ amazon = [isScrapingAmazon |-> {}, amazonResults |-> EmptyObj, requests |-> <<>>]
    /\ rs = [r \in Calls |-> [pc |-> "idle"]]
    /\ gridProps = <<>>
    /\ accounts = [users |-> [u \in Users |-> "admin"], tokens |-> EmptyObj, updating |-> {}, status |-> 0]

Init == InitRouter /\ InitPage /\ InitView /\ InitMessages /\ storage = EmptyObj

\* requests of the three adapters
GoogleRequest(query, numResults) == [source |-> "google", query |-> query, num_results |-> numResults]

GeminiRequest(prompt) == [source |-> "gemini", prompt |-> prompt]

\* the envelopes routeUserIntent builds
GeminiResult(suggestions, originPrompt) ==
    [source |-> "gemini", data |-> suggestions, originalPrompt |-> originPrompt, fallback |-> TRUE]

\* variant: the Google envelope is marked as fallback
GoogleResultFlagged(googleResults, originPrompt) ==
    [source |-> "google", data |-> googleResults, originalPrompt |-> originPrompt, fallback |-> TRUE]

GoogleResult(googleResults, originPrompt) ==
    [source |-> "google", data |-> googleResults, originalPrompt |-> originPrompt]

\* variant: the scraper envelope is not marked as fallback
ScraperResultUnflagged(scrapedProducts, originPrompt) ==
    [source |-> "scraper", data |-> scrapedProducts, originalPrompt |-> originPrompt]

ScraperResult(scrapedProducts, originPrompt) ==
    [source |-> "scraper", data |-> scrapedProducts, originalPrompt |-> originPrompt, fallback |-> TRUE]

\* variant: the outer catch block lets the error escape
RouterCatchRethrow(parsedPrompt, originPrompt, err) == Thrown(err.message)

\* outer catch block of routeUserIntent: "Return empty result on failure"
RouterCatch(parsedPrompt, originPrompt, err) ==
    Returned([source |-> "gemini", data |-> <<>>, originalPrompt |-> originPrompt,
              fallback |-> (parsedPrompt.intent = "compare")])

RouterCatchState(prev, err) ==
    [prev EXCEPT !.isLoading = FALSE, !.error = OrElse(err, "message", "Failed to route user intent")]

\* variant: a list of nothing but empty objects is not accepted
AcceptedNonTrivial(out) ==
    out.kind = "return" /\ Len(out.value) > 0 /\ \E i \in 1..Len(out.value) : out.value[i] # EmptyObj

\* googleResults && googleResults.length > 0 (same test for scrapedProducts)
Accepted(out) == out.kind = "return" /\ Len(out.value) > 0

\* variant: the forceAI flag is not consulted
FirstSourcesIgnoreForceAI(forceAI) == {"google"}

\* which adapters routeUserIntent calls first
FirstSources(forceAI) == IF forceAI THEN {"gemini"} ELSE {"google"}

\* variant: a failed Google Search goes straight to Gemini
NextSourcesSkipScraper(source) == {"gemini"}

\* variant: scraper and Gemini are raced after a failed Google Search
NextSourcesParallel(source) == IF source = "google" THEN {"scraper", "gemini"} ELSE {"gemini"}

\* which adapters it calls when the named one was not accepted
NextSources(source) == IF source = "google" THEN {"scraper"} ELSE {"gemini"}

Request(source, c, tasks) ==
    IF source = "google" THEN GoogleRequest(c.originPrompt, 5)
    ELSE IF source = "scraper" THEN ScrapeRequest(tasks)
    ELSE GeminiRequest(c.originPrompt)

\* the requests for a set of sources, in priority order
Requests(sources, c, tasks) ==
    SelectSeq(<<Request("google", c, tasks), Request("scraper", c, tasks), Request("gemini", c, tasks)>>,
              LAMBDA r : r.source \in sources)

\* row created by logScrapeTask for one task (forceAI is false in the router's call)
TaskRow(task, sessionId, taskId) ==
    [taskId |-> taskId, productName |-> task.productName, site |-> OrElse(task, "site", "unknown"),
     taskType |-> "scrape", status |-> "pending", sessionId |-> sessionId]

\* "Log each scraping task": created[i] tells whether the audit endpoint
\* stored task i and answered success
LoggedTasks(tasks, c, created) ==
    IF Has(c, "sessionId")
    THEN [i \in 1..Len(tasks) |-> IF created[i] THEN [task |-> tasks[i], taskId |-> i] ELSE [task |-> tasks[i]]]
    ELSE <<>>

TaskRows(tasks, c, created) ==
    IF Has(c, "sessionId")
    THEN [i \in 1..Len(tasks) |-> IF created[i] THEN <<TaskRow(tasks[i], c.sessionId, i)>> ELSE <<>>]
    ELSE <<>>

\* variant: the catch block rethrows without updating the logged tasks
StatusUpdatesOnSuccessOnly(logged, c, out) ==
    LET withId == SelectSeq(logged, LAMBDA l : Has(l, "taskId"))
    IN  IF Has(c, "sessionId") /\ out.kind = "return"
        THEN [i \in 1..Len(withId) |-> [taskId |-> withId[i].taskId, status |-> "scraped"]]
        ELSE <<>>

\* the status updates looped over loggedTasks after the scrape settled
StatusUpdates(logged, c, out) ==
    LET withId == SelectSeq(logged, LAMBDA l : Has(l, "taskId"))
    IN  IF Has(c, "sessionId")
        THEN [i \in 1..Len(withId) |->
                [taskId |-> withId[i].taskId, status |-> IF out.kind = "return" THEN "scraped" ELSE "error"]]
        ELSE <<>>

\* the rows after the updates in applied reached the store
ApplyUpdates(rows, updates, applied) ==
    [i \in 1..Len(rows) |->
        IF rows[i] # <<>> /\ (\E u \in 1..Len(updates) : u \in applied /\ updates[u].taskId = i)
        THEN <<[rows[i][1] EXCEPT !.status = updates[CHOOSE u \in 1..Len(updates) : updates[u].taskId = i].status]>>
        ELSE rows[i]]

\* setState((prev) => ({ ...prev, isLoading: true, error: null })) of the adapters called
Loading(prev, source, sources) ==
    IF source \in sources THEN [prev EXCEPT !.isLoading = TRUE, !.error = "null"] ELSE prev

\* setState(prev => ({ ...prev, isLoading: false, result }))
ResultState(prev, result) == [prev EXCEPT !.isLoading = FALSE, !.result = <<result>>]

CreatedChoices(tasks) == [1..Len(tasks) -> BOOLEAN]

\* ------------------------------------------- apiUsageTracker / apiLimitChecker
GeminiDailyLimit == 40

ScrapeDoSearchLimit == 100

Today == "today"

ThisMonth == "this-month"

UsageKey(service) ==
    IF service = "gemini" THEN "api_usage_gemini" ELSE "api_usage_google_search"

\* ApiUsageCounter.resetUsage
resetUsage(st, service) == Spread(st, [k \in {UsageKey(service)} |-> [date |-> Today, count |-> 0]])

\* ApiUsageCounter.getUsage: the value it returns
getUsage(st, service) ==
    IF ~Has(st, UsageKey(service)) THEN 0
    ELSE IF st[UsageKey(service)].date # Today THEN 0
    ELSE st[UsageKey(service)].count

\* ApiUsageCounter.getUsage: the storage it leaves (a stale entry is reset)
getUsageStorage(st, service) ==
    IF Has(st, UsageKey(service)) /\ st[UsageKey(service)].date # Today THEN resetUsage(st, service) ELSE st

\* ApiUsageCounter.incrementUsage
incrementUsage(st, service) ==
    Spread(getUsageStorage(st, service),
           [k \in {UsageKey(service)} |-> [date |-> Today, count |-> getUsage(st, service) + 1]])

\* ApiLimitChecker.isGeminiLimitReached
isGeminiLimitReached(st) ==
    IF ~Has(st, "api_usage_gemini") THEN FALSE
    ELSE IF st["api_usage_gemini"].date # Today THEN FALSE
    ELSE st["api_usage_gemini"].count >= GeminiDailyLimit

\* ApiLimitChecker.isScrapeDoSearchLimitReached
isScrapeDoSearchLimitReached(st) ==
    IF ~Has(st, "api_usage_scrapedo_searches") THEN FALSE
    ELSE IF st["api_usage_scrapedo_searches"].month # ThisMonth THEN FALSE
    ELSE st["api_usage_scrapedo_searches"].searches >= ScrapeDoSearchLimit

\* ApiLimitChecker.incrementScrapeDoSearch
incrementScrapeDoSearch(st) ==
    LET parsed == IF Has(st, "api_usage_scrapedo_searches") /\ st["api_usage_scrapedo_searches"].month = ThisMonth
                  THEN st["api_usage_scrapedo_searches"]
                  ELSE [month |-> ThisMonth, searches |-> 0]
    IN  Spread(st, [k \in {"api_usage_scrapedo_searches"} |-> [parsed EXCEPT !.searches = parsed.searches + 1]])

GeminiAlreadyUsed == 12

\* ApiLimitChecker.getGeminiUsage
getGeminiUsage(st) ==
    IF ~Has(st, "api_usage_gemini") THEN GeminiAlreadyUsed
    ELSE IF st["api_usage_gemini"].date # Today THEN GeminiAlreadyUsed
    ELSE GeminiAlreadyUsed + st["api_usage_gemini"].count

\* ApiLimitChecker.getScrapeDoSearchCount
getScrapeDoSearchCount(st) ==
    IF ~Has(st, "api_usage_scrapedo_searches") THEN 0
    ELSE IF st["api_usage_scrapedo_searches"].month # ThisMonth THEN 0
    ELSE st["api_usage_scrapedo_searches"].searches

\* Math.max(0, n)
AtLeastZero(n) == IF n < 0 THEN 0 ELSE n

\* ApiLimitChecker.getRemainingLimits
getRemainingLimits(st) ==
    [gemini |-> AtLeastZero(GeminiDailyLimit - getGeminiUsage(st)),
     scrapeDoSearches |-> AtLeastZero(ScrapeDoSearchLimit - getScrapeDoSearchCount(st)),
     serper |-> 2483,
     scrapeDo |-> AtLeastZero(1000 - 273)]

\* ------------------------------------------------ dashboard: handlePromptSubmit
AiDisplayLimit == 4

LinkDisplayLimit == 5

Slice(list, n) == SubSeq(list, 1, IF Len(list) < n THEN Len(list) ELSE n)

QProducts(n) == [i \in 1..n |-> [name |-> "Product", rank |-> i]]

QLinks(n) == [i \in 1..n |-> [title |-> "Link", rank |-> i]]

\* answers of the central query endpoint
QueryBodies ==
    {[type |-> "discovery_result", products |-> QProducts(1), links |-> <<>>],
     [type |-> "discovery_result", products |-> QProducts(1), links |-> QLinks(1), fallback |-> FALSE],
     [type |-> "discovery_result", products |-> QProducts(AiDisplayLimit + 1), links |-> QLinks(LinkDisplayLimit + 1),
      fallback |-> TRUE, amazon_ready |-> TRUE, amazon_query_data |-> [query |-> "phones"],
      price_chart_image |-> "png-price", specs_chart_image |-> "png-specs"],
     [type |-> "discovery_result", products |-> <<>>, links |-> QLinks(1), google_fallback |-> TRUE],
     [type |-> "discovery_result", products |-> QProducts(1), amazon_ready |-> TRUE],
     [type |-> "discovery_result", products |-> <<>>, links |-> <<>>],
     [type |-> "discovery_result"],
     [type |-> "analysis_result", answer |-> "42", persona |-> "analyst", execution_time |-> 3],
     [type |-> "unknown"]}

QueryResponses ==
    {[kind |-> "reject", reason |-> "network"],
     [kind |-> "response", ok |-> FALSE, body |-> [detail |-> "quota exceeded"]],
     [kind |-> "response", ok |-> FALSE],
     [kind |-> "response", ok |-> TRUE]}
      \cup {[kind |-> "response", ok |-> TRUE, body |-> b] : b \in QueryBodies}

\* the fetch of handle_query up to "const queryResult = await response.json()"
HandleQueryTry(resp) ==
    IF resp.kind = "reject" THEN Thrown("Failed to fetch")
    ELSE IF ~Has(resp, "body") THEN Thrown("Unexpected token in JSON")
    ELSE IF ~resp.ok THEN Thrown(OrElse(resp.body, "detail", "Failed to process query"))
    ELSE Returned(resp.body)

ListOf(queryResult, f) == IF Has(queryResult, f) THEN queryResult[f] ELSE <<>>

\* queryResult.fallback === true || queryResult.google_fallback === true
QueryIsFallback(queryResult) ==
    \/ Has(queryResult, "fallback") /\ queryResult.fallback
    \/ Has(queryResult, "google_fallback") /\ queryResult.google_fallback

AmazonFields(queryResult) ==
    [amazonReady |-> Has(queryResult, "amazon_ready") /\ queryResult.amazon_ready,
     amazonQueryData |-> IF Has(queryResult, "amazon_query_data") THEN queryResult.amazon_query_data ELSE Null]

\* const aiResult
AiResult(queryResult, prompt) ==
    Spread([source |-> "gemini",
            data |-> Slice(ListOf(queryResult, "products"), AiDisplayLimit),
            originalPrompt |-> prompt,
            fallback |-> QueryIsFallback(queryResult),
            price_chart_image |-> OrElse(queryResult, "price_chart_image", "null"),
            specs_chart_image |-> OrElse(queryResult, "specs_chart_image", "null")],
           AmazonFields(queryResult))

\* const googleResult
GoogleLinksResult(queryResult, prompt) ==
    Spread([source |-> "google",
            data |-> Slice(ListOf(queryResult, "links"), LinkDisplayLimit),
            originalPrompt |-> prompt,
            fallback |-> QueryIsFallback(queryResult)],
           AmazonFields(queryResult))

\* const routedResult of an analysis answer
AnalysisResult(queryResult, prompt) ==
    [source |-> "analysis",
     data |-> <<[type |-> "analysis", answer |-> queryResult.answer, persona |-> queryResult.persona,
                 execution_time |-> queryResult.execution_time]>>,
     originalPrompt |-> prompt,
     fallback |-> FALSE]

\* the envelopes handed to setResult / addResult at once
ImmediateResults(queryResult, prompt) ==
    IF queryResult.type = "discovery_result"
    THEN IF Len(ListOf(queryResult, "products")) > 0 THEN <<AiResult(queryResult, prompt)>> ELSE <<>>
    ELSE IF queryResult.type = "analysis_result" THEN <<AnalysisResult(queryResult, prompt)>>
    ELSE <<>>

\* the envelopes handed to addResult from the one-second timer
DelayedResults(queryResult, prompt) ==
    IF queryResult.type = "discovery_result" /\ Len(ListOf(queryResult, "links")) > 0
    THEN <<GoogleLinksResult(queryResult, prompt)>>
    ELSE <<>>

\* resultData of the "done" update
DoneResultData(queryResult) ==
    [source |-> queryResult.type,
     dataCount |-> IF queryResult.type = "discovery_result"
                   THEN Len(ListOf(queryResult, "products")) + Len(ListOf(queryResult, "links"))
                   ELSE 1,
     responseType |-> queryResult.type]

RECURSIVE Deliveries(_, _)
Deliveries(results, prompt) ==
    IF results = <<>> THEN <<>>
    ELSE <<[result |-> Head(results), prompt |-> prompt]>> \o Deliveries(Tail(results), prompt)

\* "Track API usage" and the increment of the ScrapeDo search count
TrackUsage(st) == incrementScrapeDoSearch(incrementUsage(incrementUsage(st, "gemini"), "google_search"))

QueryRequest(prompt) == [query |-> prompt, max_results |-> 5]

\* variant: the usage is counted before the limits are checked
SubmitCountFirst(h, prompt, authed) ==
    /\ hs[h].pc = "idle"
    /\ IF isGeminiLimitReached(storage) \/ isScrapeDoSearchLimitReached(storage)
       THEN /\ toasts' = Append(toasts, IF isGeminiLimitReached(storage) THEN "error: gemini limit"
                                        ELSE "error: scrapedo limit")
            /\ page' = [page EXCEPT !.loading = FALSE]
            /\ hs' = [hs EXCEPT ![h] = [pc |-> "done", blocked |-> TRUE]]
            /\ storage' = TrackUsage(storage)
            /\ UNCHANGED queries
       ELSE /\ page' = [page EXCEPT !.loading = TRUE, !.originalPrompt = prompt, !.currentSessionId = <<h>>]
            /\ IF authed
               THEN /\ hs' = [hs EXCEPT ![h] = [pc |-> "logging", prompt |-> prompt, authed |-> authed,
                                                sessionId |-> h, currentSessionId |-> page.currentSessionId]]
                    /\ UNCHANGED <<toasts, storage, queries>>
               ELSE /\ hs' = [hs EXCEPT ![h] = [pc |-> "querying", prompt |-> prompt, authed |-> authed,
                                                sessionId |-> h, currentSessionId |-> page.currentSessionId]]
                    /\ toasts' = Append(toasts, "info: processing")
                    /\ storage' = TrackUsage(storage)
                    /\ queries' = Append(queries, QueryRequest(prompt))
    /\ UNCHANGED <<promptSessions, panel, timers>>

\* handlePromptSubmit from its start to its first await
Submit(h, prompt, authed) ==
    /\ hs[h].pc = "idle"
    /\ IF isGeminiLimitReached(storage) \/ isScrapeDoSearchLimitReached(storage)
       THEN /\ toasts' = Append(toasts, IF isGeminiLimitReached(storage) THEN "error: gemini limit"
                                        ELSE "error: scrapedo limit")
            /\ page' = [page EXCEPT !.loading = FALSE]
            /\ hs' = [hs EXCEPT ![h] = [pc |-> "done", blocked |-> TRUE]]
            /\ UNCHANGED <<storage, queries>>
       ELSE /\ page' = [page EXCEPT !.loading = TRUE, !.originalPrompt = prompt, !.currentSessionId = <<h>>]
            /\ IF authed
               THEN /\ hs' = [hs EXCEPT ![h] = [pc |-> "logging", prompt |-> prompt, authed |-> authed,
                                                sessionId |-> h, currentSessionId |-> page.currentSessionId]]
                    /\ UNCHANGED <<toasts, storage, queries>>
               ELSE /\ hs' = [hs EXCEPT ![h] = [pc |-> "querying", prompt |-> prompt, authed |-> authed,
                                                sessionId |-> h, currentSessionId |-> page.currentSessionId]]
                    /\ toasts' = Append(toasts, "info: processing")
                    /\ storage' = TrackUsage(storage)
                    /\ queries' = Append(queries, QueryRequest(prompt))
    /\ UNCHANGED <<promptSessions, panel, timers>>

\* logPromptSession settles (it never throws); the handler counts the usage
\* and posts the query
LogSettles(h, created) ==
    /\ hs[h].pc = "logging"
    /\ promptSessions' =
          IF created
          THEN Spread(promptSessions,
                      [k \in {hs[h].sessionId} |-> [sessionId |-> hs[h].sessionId, originPrompt |-> hs[h].prompt,
                                                    status |-> "pending"]])
          ELSE promptSessions
    /\ hs' = [hs EXCEPT ![h].pc = "querying"]
    /\ toasts' = Append(toasts, "info: processing")
    /\ storage' = TrackUsage(storage)
    /\ queries' = Append(queries, QueryRequest(hs[h].prompt))
    /\ UNCHANGED <<page, panel, timers>>

\* "Convert backend response to frontend format", then the finally block
Deliver(h, queryResult) ==
    LET now == ImmediateResults(queryResult, hs[h].prompt)
        later == DelayedResults(queryResult, hs[h].prompt)
    IN  /\ page' = [page EXCEPT !.loading = FALSE,
                                !.result = IF now = <<>> THEN page.result ELSE <<now[Len(now)]>>]
        /\ panel' = panel \o Deliveries(now, hs[h].prompt)
        /\ timers' = timers \o Deliveries(later, hs[h].prompt)
        /\ toasts' = toasts \o [i \in 1..Len(now) |-> "success"]
        /\ hs' = [hs EXCEPT ![h].pc = "done"]

\* the catch block after its status update, then the finally block
Fail(h) ==
    /\ page' = [page EXCEPT !.loading = FALSE, !.session = <<>>]
    /\ hs' = [hs EXCEPT ![h].pc = "done"]

\* the fetch of handle_query settles
QuerySettles(h, resp) ==
    LET out == HandleQueryTry(resp)
    IN  /\ hs[h].pc = "querying"
        /\ UNCHANGED <<storage, queries, promptSessions>>
        /\ IF out.kind = "throw"
           THEN /\ toasts' = Append(toasts, "error: " \o out.message)
                /\ IF hs[h].authed /\ hs[h].currentSessionId # <<>>
                   THEN /\ hs' = [hs EXCEPT ![h] = Spread(hs[h], [pc |-> "error-updating", message |-> out.message])]
                        /\ UNCHANGED <<page, panel, timers>>
                   ELSE Fail(h) /\ UNCHANGED <<panel, timers>>
           ELSE IF hs[h].authed
                THEN /\ hs' = [hs EXCEPT ![h] = Spread(hs[h], [pc |-> "updating", queryResult |-> out.value])]
                     /\ UNCHANGED <<page, panel, timers, toasts>>
                ELSE Deliver(h, out.value)

\* the row after updatePromptSession(sessionId, updates) reached the store
UpdateRow(rows, sessionId, updates, applied) ==
    IF applied /\ Has(rows, sessionId)
    THEN Spread(rows, [k \in {sessionId} |-> Spread(rows[sessionId], updates)])
    ELSE rows

\* updatePromptSession(sessionId, {status: "done"}) settles
UpdateSettles(h, applied) ==
    /\ hs[h].pc = "updating"
    /\ promptSessions' = UpdateRow(promptSessions, hs[h].sessionId,
                                   [status |-> "done", resultData |-> DoneResultData(hs[h].queryResult)], applied)
    /\ Deliver(h, hs[h].queryResult)
    /\ UNCHANGED <<storage, queries>>

\* updatePromptSession(currentSessionId, {status: "error"}) of the catch block settles
ErrorUpdateSettles(h, applied) ==
    /\ hs[h].pc = "error-updating"
    /\ promptSessions' = UpdateRow(promptSessions, hs[h].currentSessionId[1],
                                   [status |-> "error", errorMessage |-> hs[h].message], applied)
    /\ Fail(h)
    /\ UNCHANGED <<storage, queries, panel, timers, toasts>>

\* the callback of setTimeout(..., 1000) runs
TimerFires(i) ==
    /\ i \in 1..Len(timers)
    /\ panel' = Append(panel, timers[i])
    /\ toasts' = Append(toasts, "success")
    /\ timers' = SubSeq(timers, 1, i - 1) \o SubSeq(timers, i + 1, Len(timers))
    /\ UNCHANGED <<storage, queries, promptSessions, page, hs>>

\* ------------------------------------------------ MessagesArea: Amazon
\* the system messages of the panel, one per addResult call; the id of a
\* message is its position
MessageIds == 1..Len(panel)

AmazonProducts(n) == [i \in 1..n |-> [name |-> "Amazon product", rank |-> i]]

\* answers of the Amazon scrape endpoint
AmazonResponses ==
    {[kind |-> "reject", reason |-> "network"],
     [kind |-> "response", ok |-> FALSE, body |-> [detail |-> "blocked by Amazon"]],
     [kind |-> "response", ok |-> FALSE, body |-> EmptyObj],
     [kind |-> "response", ok |-> FALSE],
     [kind |-> "response", ok |-> TRUE, body |-> EmptyObj],
     [kind |-> "response", ok |-> TRUE, body |-> [products |-> <<>>]],
     [kind |-> "response", ok |-> TRUE, body |-> [products |-> AmazonProducts(1)]]}

AmazonRequest(messageId, result) == [source |-> "amazon", messageId |-> messageId, body |-> result.amazonQueryData]

\* clicks on "Search Amazon" so far: each one leaves a toast
Clicks == Len(SelectSeq(toasts, LAMBDA t : t \in {"info: searching amazon", "error: No Amazon query data available"}))

\* the "Search Amazon" button of a message is rendered and enabled
AmazonButton(messageId) ==
    /\ Clicks < MaxClicks
    /\ messageId \in MessageIds
    /\ Has(panel[messageId].result, "amazonReady") /\ panel[messageId].result.amazonReady
    /\ ~Has(amazon.amazonResults, messageId)
    /\ messageId \notin amazon.isScrapingAmazon

\* the try block of handleAmazonScrape after the fetch settled
AmazonTry(resp) ==
    IF resp.kind = "reject" THEN Thrown("Failed to fetch")
    ELSE IF ~Has(resp, "body") THEN Thrown("Unexpected token in JSON")
    ELSE IF ~resp.ok THEN Thrown(OrElse(resp.body, "detail", "Failed to scrape Amazon"))
    ELSE Returned(IF Has(resp.body, "products") THEN resp.body.products ELSE <<>>)

\* handleAmazonScrape without its guard on amazonQueryData
handleAmazonScrapeUnguarded(messageId) ==
    /\ AmazonButton(messageId)
    /\ amazon' = [amazon EXCEPT !.isScrapingAmazon = @ \cup {messageId},
                                !.requests = Append(@, AmazonRequest(messageId, panel[messageId].result))]
    /\ toasts' = Append(toasts, "info: searching amazon")

\* handleAmazonScrape from the click on "Search Amazon" to its await
handleAmazonScrape(messageId) ==
    /\ AmazonButton(messageId)
    /\ IF panel[messageId].result.amazonQueryData = Null
       THEN /\ toasts' = Append(toasts, "error: No Amazon query data available")
            /\ UNCHANGED amazon
       ELSE /\ amazon' = [amazon EXCEPT !.isScrapingAmazon = @ \cup {messageId},
                                        !.requests = Append(@, AmazonRequest(messageId, panel[messageId].result))]
            /\ toasts' = Append(toasts, "info: searching amazon")

\* the fetch of scrape_amazon settles: try, catch and finally of handleAmazonScrape
AmazonSettles(messageId, resp) ==
    LET out == AmazonTry(resp)
    IN  /\ messageId \in amazon.isScrapingAmazon
        /\ IF out.kind = "throw"
           THEN /\ toasts' = Append(toasts, "error: " \o out.message)
                /\ amazon' = [amazon EXCEPT !.isScrapingAmazon = @ \ {messageId}]
           ELSE /\ toasts' = Append(toasts, "success: amazon")
                /\ amazon' = [amazon EXCEPT !.isScrapingAmazon = @ \ {messageId},
                                            !.amazonResults = Spread(@, [k \in {messageId} |-> out.value])]

\* localStorage as a page visit can find it
StorageInputs ==
    {EmptyObj,
     [api_usage_gemini |-> [date |-> Today, count |-> GeminiDailyLimit - 1]],
     [api_usage_gemini |-> [date |-> Today, count |-> GeminiDailyLimit]],
     [api_usage_gemini |-> [date |-> "yesterday", count |-> GeminiDailyLimit],
      api_usage_scrapedo_searches |-> [month |-> ThisMonth, searches |-> ScrapeDoSearchLimit - 1]],
     [api_usage_scrapedo_searches |-> [month |-> ThisMonth, searches |-> ScrapeDoSearchLimit]]}

InitDashboard == InitRouter /\ InitPage /\ InitView /\ InitMessages /\ storage \in StorageInputs

NextDashboard ==
    \/ \E h \in Submissions, p \in Prompts, a \in BOOLEAN : Submit(h, p, a) /\ UNCHANGED <<routerVars, viewVars, extraVars>>
    \/ \E h \in Submissions, c \in BOOLEAN : LogSettles(h, c) /\ UNCHANGED <<routerVars, viewVars, extraVars>>
    \/ \E h \in Submissions, r \in QueryResponses : QuerySettles(h, r) /\ UNCHANGED <<routerVars, viewVars, extraVars>>
    \/ \E h \in Submissions, a \in BOOLEAN : UpdateSettles(h, a) /\ UNCHANGED <<routerVars, viewVars, extraVars>>
    \/ \E h \in Submissions, a \in BOOLEAN : ErrorUpdateSettles(h, a) /\ UNCHANGED <<routerVars, viewVars, extraVars>>
    \/ \E i \in 1..Len(timers) : TimerFires(i) /\ UNCHANGED <<routerVars, viewVars, extraVars>>

SpecDashboard == InitDashboard /\ [][NextDashboard]_vars

\* one query and the messages it leaves in the panel, with their Amazon
\* buttons (the catch block of the first query of a page visit finds
\* currentSessionId empty and awaits no update)
NextMessages ==
    \/ \E p \in Prompts, a \in BOOLEAN : Submit("q1", p, a) /\ UNCHANGED <<routerVars, viewVars, extraVars>>
    \/ \E c \in BOOLEAN : LogSettles("q1", c) /\ UNCHANGED <<routerVars, viewVars, extraVars>>
    \/ \E r \in QueryResponses : QuerySettles("q1", r) /\ UNCHANGED <<routerVars, viewVars, extraVars>>
    \/ \E a \in BOOLEAN : UpdateSettles("q1", a) /\ UNCHANGED <<routerVars, viewVars, extraVars>>
    \/ \E i \in 1..Len(timers) : TimerFires(i) /\ UNCHANGED <<routerVars, viewVars, extraVars>>
    \/ \E m \in MessageIds :
          handleAmazonScrape(m) /\ UNCHANGED <<routerVars, viewVars, storage, page, promptSessions, panel, timers, queries, hs, rs, gridProps, accounts>>
    \/ \E m \in MessageIds, r \in AmazonResponses :
          AmazonSettles(m, r) /\ UNCHANGED <<routerVars, viewVars, storage, page, promptSessions, panel, timers, queries, hs, rs, gridProps, accounts>>

SpecMessages == Init /\ [][NextMessages]_vars

\* ------------------------------------------------ product-card: ProductCard
\* A property of a product handed to the card is a tagged JavaScript value;
\* a property that is absent (undefined or null) is a field not in the DOMAIN.
Str(s) == [t |-> "string", s |-> s]

Num(n) == [t |-> "number", n |-> n]

Obj(json) == [t |-> "object", json |-> json]     \* a nested object, by its JSON text

Undefined == [t |-> "undefined"]

\* product.f
Prop(product, f) == IF Has(product, f) THEN product[f] ELSE Undefined

\* the value counts as true in a condition
Truthy(v) ==
    \/ v.t = "string" /\ v.s # ""
    \/ v.t = "number" /\ v.n # 0
    \/ v.t = "object"

\* a || b
Or(a, b) == IF Truthy(a) THEN a ELSE b

\* n.toLocaleString(): digit grouping of an integer below 100000 (the
\* grouping of larger numbers depends on the locale of the browser)
toLocaleString(n) ==
    IF n < 1000 THEN ToString(n)
    ELSE ToString(n \div 1000) \o ","
           \o (IF n % 1000 < 10 THEN "00" ELSE IF n % 1000 < 100 THEN "0" ELSE "") \o ToString(n % 1000)

\* the keywords of the price heuristic that occur in the lower-cased text
\* (String.prototype.toLowerCase and includes, tabulated for the texts used)
KeywordsIn(text) ==
    CASE text = "iPhone 14" -> {"iphone", "14", "phone"}
      [] text = "Poco X5" -> {"poco"}
      [] text = "Poco X5 5G" -> {"poco"}
      [] text = "Samsung Galaxy S23 Ultra" -> {"samsung", "galaxy", "s23", "ultra"}
      [] text = "Galaxy S23" -> {"galaxy", "s23"}
      [] text = "Pixel 8" -> {"8"}
      [] text = "Gaming Laptop" -> {"laptop"}
      [] text = "Phone X" -> {"phone"}
      [] text = "Phone Y" -> {"phone"}
      [] text = "Sample Product 1" -> {"pro"}
      [] text = "Sample Product 2" -> {"pro"}
      [] text = "Intel i7, 16GB RAM" -> {"i7"}
      [] OTHER -> {}

\* text.toLowerCase().includes(keyword)
Includes(text, keyword) == keyword \in KeywordsIn(text)

\* name.includes(a) || name.includes(b) || ...
IncludesAny(text, keywords) == \E k \in keywords : Includes(text, k)

\* safeString: "Helper function to safely convert values to strings"
safeString(value) ==
    IF value.t = "undefined" THEN ""
    ELSE IF value.t = "string" THEN value.s
    ELSE IF value.t = "number" THEN ToString(value.n)
    ELSE value.json

\* the ladder of keyword tests of estimatePrice: an estimated price range
\* ("Rs" stands for the rupee sign)
PriceRange(name, specs) ==
    IF IncludesAny(name, {"iphone", "apple"})
    THEN IF IncludesAny(name, {"15", "pro"}) THEN "Rs70,000 - Rs1,50,000"
         ELSE IF IncludesAny(name, {"14", "13"}) THEN "Rs50,000 - Rs80,000"
         ELSE "Rs40,000 - Rs70,000"
    ELSE IF Includes(name, "samsung")
    THEN IF IncludesAny(name, {"s24", "s23", "ultra"}) THEN "Rs45,000 - Rs1,20,000"
         ELSE IF Includes(name, "galaxy") /\ Includes(name, "pro") THEN "Rs35,000 - Rs60,000"
         ELSE IF Includes(name, "galaxy") THEN "Rs15,000 - Rs50,000"
         ELSE "Rs20,000 - Rs50,000"
    ELSE IF Includes(name, "oneplus")
    THEN IF IncludesAny(name, {"pro", "11", "12"}) THEN "Rs35,000 - Rs70,000" ELSE "Rs25,000 - Rs45,000"
    ELSE IF Includes(name, "google pixel")
    THEN IF IncludesAny(name, {"pro", "8", "7"}) THEN "Rs40,000 - Rs80,000" ELSE "Rs30,000 - Rs50,000"
    ELSE IF IncludesAny(name, {"xiaomi", "redmi", "poco"})
    THEN IF IncludesAny(name, {"pro", "ultra"}) THEN "Rs20,000 - Rs45,000" ELSE "Rs10,000 - Rs30,000"
    ELSE IF Includes(name, "oppo")
    THEN IF IncludesAny(name, {"pro", "reno"}) THEN "Rs25,000 - Rs50,000" ELSE "Rs15,000 - Rs35,000"
    ELSE IF Includes(name, "vivo")
    THEN IF IncludesAny(name, {"pro", "v29", "v30"}) THEN "Rs25,000 - Rs50,000" ELSE "Rs15,000 - Rs35,000"
    ELSE IF Includes(name, "nothing")
    THEN IF IncludesAny(name, {"phone (2)", "pro"}) THEN "Rs35,000 - Rs55,000" ELSE "Rs25,000 - Rs40,000"
    ELSE IF Includes(name, "realme")
    THEN IF IncludesAny(name, {"pro", "gt"}) THEN "Rs20,000 - Rs40,000" ELSE "Rs10,000 - Rs25,000"
    ELSE IF IncludesAny(name, {"macbook", "mac book"})
    THEN IF IncludesAny(name, {"pro", "max"}) THEN "Rs1,50,000 - Rs3,50,000" ELSE "Rs80,000 - Rs1,50,000"
    ELSE IF IncludesAny(name, {"laptop", "notebook"})
    THEN IF IncludesAny(specs, {"i7", "i9", "rtx"}) THEN "Rs60,000 - Rs1,50,000"
         ELSE IF IncludesAny(specs, {"i5", "ryzen 7"}) THEN "Rs40,000 - Rs80,000"
         ELSE "Rs25,000 - Rs60,000"
    ELSE IF IncludesAny(name, {"airpods", "air pods"})
    THEN IF IncludesAny(name, {"pro", "max"}) THEN "Rs20,000 - Rs60,000" ELSE "Rs10,000 - Rs25,000"
    ELSE IF IncludesAny(name, {"headphones", "earbuds"})
    THEN IF IncludesAny(name, {"sony", "bose"}) THEN "Rs15,000 - Rs40,000" ELSE "Rs2,000 - Rs20,000"
    ELSE IF IncludesAny(name, {"mobile", "phone", "smartphone"}) THEN "Rs15,000 - Rs50,000"
    ELSE "Price varies by retailer"

\* product.price_value > 0 (price_value is a number, an object or absent in
\* the products considered; an object compares as NaN)
Positive(v) == v.t = "number" /\ v.n > 0

\* variant: a price equal to "Price not available" is passed on and nothing is estimated
estimatePriceNoHeuristic(product) ==
    Returned(Or(Or(Prop(product, "price"), Prop(product, "price_display")), Str("Price not available")))

\* estimatePrice: the value it returns, or the TypeError of calling
\* toLowerCase on something that is not a string
estimatePrice(product) ==
    LET name == Or(Or(Prop(product, "name"), Prop(product, "title")), Str(""))
        specs == Or(Or(Prop(product, "specifications"), Prop(product, "description")), Str(""))
        price == Prop(product, "price")
        price_display == Prop(product, "price_display")
        price_value == Prop(product, "price_value")
    IN  IF name.t # "string" \/ specs.t # "string" THEN Thrown("toLowerCase is not a function")
        ELSE IF Truthy(price) /\ price # Str("Price not available") THEN Returned(price)
        ELSE IF Truthy(price_display) THEN Returned(price_display)
        ELSE IF Truthy(price_value) /\ Positive(price_value)
             THEN Returned(Str("Rs" \o toLocaleString(price_value.n)))
        ELSE Returned(Str(PriceRange(name.s, specs.s)))

\* {value} as the child of an element: React refuses an object
ReactChild(value) ==
    IF value.t = "object" THEN Thrown("Objects are not valid as a React child")
    ELSE Returned(safeString(value))

\* variant: the title is preferred to the name
productNameTitleFirst(product) ==
    safeString(Or(Or(Prop(product, "title"), Prop(product, "name")), Str("Unknown Product")))

\* const productName
productName(product) ==
    safeString(Or(Or(Prop(product, "name"), Prop(product, "title")), Str("Unknown Product")))

\* the text on the badge of the card
Badge(source) ==
    IF source = "scraper" THEN "Live Data"
    ELSE IF source = "google" THEN "Web/Google Suggested"
    ELSE IF source = "amazon" THEN "Live Amazon"
    ELSE IF source = "gemini" THEN "AI Discovery"
    ELSE "AI-Suggested"

\* variant: the constants of the card remember whether the chat was opened
CardFieldsStateful(product, source, isRAGChatOpen) ==
    IF estimatePrice(product).kind = "throw" THEN estimatePrice(product)
    ELSE Returned([productName |-> productName(product),
                   productPrice |-> estimatePrice(product).value,
                   productRating |-> IF isRAGChatOpen THEN "asked" ELSE "N/A"])

\* "Handle different product data structures from different sources": the
\* constants computed in the body of ProductCard
CardFields(product, source, isRAGChatOpen) ==
    IF estimatePrice(product).kind = "throw" THEN estimatePrice(product)
    ELSE Returned(
           [productName |-> productName(product),
            productPrice |-> estimatePrice(product).value,
            productRating |-> safeString(Or(Prop(product, "rating"), Str("N/A"))),
            productImage |-> safeString(Or(Prop(product, "image"), Str("/placeholder-product.jpg"))),
            productUrl |-> safeString(Or(Or(Or(Prop(product, "link"), Prop(product, "url")),
                                            Prop(product, "productUrl")), Str("#"))),
            productDescription |-> safeString(Or(Or(Or(Prop(product, "description"), Prop(product, "specifications")),
                                                    Prop(product, "snippet")), Str(""))),
            discount |-> safeString(Or(Prop(product, "discount"), Str(""))),
            availability |-> safeString(Or(Prop(product, "availability"), Str(""))),
            brand |-> safeString(Or(Prop(product, "brand"), Str(""))),
            sourceLabel |-> safeString(Or(Prop(product, "source"), Str("")))])

\* ProductCard: what one render of the component produces.  An error thrown
\* while rendering is not caught by the component.
ProductCard(product, source, isRAGChatOpen) ==
    LET fields == CardFields(product, source, isRAGChatOpen)
    IN  IF fields.kind = "throw" THEN fields
        ELSE IF ReactChild(fields.value.productPrice).kind = "throw" THEN ReactChild(fields.value.productPrice)
        ELSE Returned(Spread(fields.value,
                             [productPrice |-> ReactChild(fields.value.productPrice).value,
                              badge |-> Badge(source),
                              ragChatOpen |-> isRAGChatOpen]))

\* ------------------------------------------------------------ ProductChart
\* variant: every product with a non-zero price is plotted
ChartAcceptsNonZero(p) == Prop(p, "price_value").t = "number" /\ Prop(p, "price_value").n # 0

\* "Filter out products with no valid price": p.price_value > 0
ChartAccepts(p) == Positive(Prop(p, "price_value"))

ChartNameLimit == 20

\* one entry of priceData
PriceEntry(p) ==
    [name |-> IF p.name.t = "string" /\ Len(p.name.s) > ChartNameLimit
              THEN Str(SubSeq(p.name.s, 1, ChartNameLimit) \o "...")
              ELSE p.name,
     fullName |-> p.name,
     price |-> p.price_value.n,
     priceDisplay |-> Prop(p, "price_display")]

\* ProductChart with chartType "price"
ProductChart(data) ==
    LET accepted == SelectSeq(data, ChartAccepts)
    IN  IF Len(data) = 0 THEN Returned([view |-> "empty", text |-> "No data available for visualization."])
        ELSE IF \E i \in 1..Len(accepted) : ~Has(accepted[i], "name")
             THEN Thrown("Cannot read properties of undefined (reading 'length')")
        ELSE IF Len(accepted) = 0
             THEN Returned([view |-> "empty", text |-> "No valid price data to display."])
        ELSE Returned([view |-> "chart", priceData |-> [i \in 1..Len(accepted) |-> PriceEntry(accepted[i])]])

\* ------------------------------------------------------------- ProductGrid
GridAiLimit == 4

\* the items of the modelled answers carry string properties only: the same
\* object as the card reads it
Typed(item) == [f \in DOMAIN item |-> Str(item[f])]

\* the alerts shown above the cards
GridBanners(source, fallback) ==
    (IF source = "gemini" THEN {"ai-discovery"} ELSE {})
      \cup (IF source = "gemini" /\ fallback THEN {"gemini-fallback"} ELSE {})
      \cup (IF source = "google" /\ ~fallback THEN {"google-search"} ELSE {})
      \cup (IF source = "google" /\ fallback THEN {"google-fallback"} ELSE {})

\* product && typeof product === 'object' && product !== null
IsObject(product) == product # Null /\ (Has(product, "t") => product.t = "object")

\* variant: the grid is returned even when no product is left to display
ProductGridNoEmptyCheck(products, source, fallback) ==
    LET validProducts == SelectSeq(products, IsObject)
        displayProducts == IF source = "gemini" THEN Slice(validProducts, GridAiLimit) ELSE validProducts
        cards == [i \in 1..Len(displayProducts) |-> ProductCard(displayProducts[i], source, FALSE)]
    IN  IF Len(products) = 0 THEN [view |-> "alert", title |-> "No products found"]
        ELSE IF \E i \in 1..Len(cards) : cards[i].kind = "throw" THEN [view |-> "crashed"]
        ELSE [view |-> "grid", banners |-> GridBanners(source, fallback),
              cards |-> [i \in 1..Len(cards) |-> cards[i].value]]

\* ProductGrid with the props the message list hands it (isLoading and error
\* keep their defaults).  The cards are rendered by React after the map
\* callback returned, so its try block does not see what they throw.
ProductGrid(products, source, fallback) ==
    LET validProducts == SelectSeq(products, IsObject)
        displayProducts == IF source = "gemini" THEN Slice(validProducts, GridAiLimit) ELSE validProducts
        cards == [i \in 1..Len(displayProducts) |-> ProductCard(displayProducts[i], source, FALSE)]
    IN  IF Len(products) = 0 THEN [view |-> "alert", title |-> "No products found"]
        ELSE IF Len(displayProducts) = 0 THEN [view |-> "alert", title |-> "No valid products found"]
        ELSE IF \E i \in 1..Len(cards) : cards[i].kind = "throw" THEN [view |-> "crashed"]
        ELSE [view |-> "grid", banners |-> GridBanners(source, fallback),
              cards |-> [i \in 1..Len(cards) |-> cards[i].value]]

\* the fallback prop the message view hands to the product grid:
\* result.fallback || result.googleFallback (an absent flag is falsy)
IsFallback(result) ==
    \/ Has(result, "fallback") /\ result.fallback
    \/ Has(result, "googleFallback") /\ result.googleFallback

\* what the message list renders for an envelope
ResultView(result) ==
    ProductGrid([i \in 1..Len(result.data) |-> Typed(result.data[i])], result.source, IsFallback(result))

\* the router state holds the returned envelope and the message list shows it
ShowResult(out) == grid' = IF out.kind = "return" THEN <<ResultView(out.value)>> ELSE grid

\* routeUserIntent up to its first await: the scrape tasks are built, then
\* Gemini (forceAI) or Google Search is called
Resolve(parsedPrompt, originPrompt, forceAI, session) ==
    LET c == Spread([parsedPrompt |-> parsedPrompt, originPrompt |-> originPrompt, forceAI |-> forceAI], session)
        built == buildScrapeInstructions(parsedPrompt)
        first == FirstSources(forceAI)
    IN  /\ pc = "idle"
        /\ call' = c
        /\ UNCHANGED <<received, auditUpdates, taskLog, loggedTasks>>
        /\ IF built.kind = "throw"
           THEN /\ settled' = RouterCatch(parsedPrompt, originPrompt, built)
                /\ state' = RouterCatchState(state, built)
                /\ ShowResult(RouterCatch(parsedPrompt, originPrompt, built))
                /\ pc' = "done"
                /\ UNCHANGED <<scrapeTasks, googleState, scraperState, geminiState, sent, inflight>>
           ELSE /\ scrapeTasks' = built.value
                /\ state' = [state EXCEPT !.isLoading = TRUE, !.error = "null"]
                /\ sent' = sent \o Requests(first, c, built.value)
                /\ inflight' = inflight \cup first
                /\ googleState' = Loading(googleState, "google", first)
                /\ scraperState' = Loading(scraperState, "scraper", first)
                /\ geminiState' = Loading(geminiState, "gemini", first)
                /\ pc' = "routing"
                /\ UNCHANGED <<settled, grid>>

\* searchProducts settles; routeUserIntent accepts it or falls back to the scraper
GoogleSettles(resp, created) ==
    LET out == searchProducts(resp)
        next == IF Accepted(out) THEN {} ELSE NextSources("google")
    IN  /\ pc = "routing"
        /\ "google" \in inflight
        /\ googleState' = SearchState(googleState, out)
        /\ received' = Append(received, [source |-> "google", resp |-> resp, out |-> out])
        /\ sent' = sent \o Requests(next, call, scrapeTasks)
        /\ inflight' = (inflight \ {"google"}) \cup next
        /\ scraperState' = Loading(scraperState, "scraper", next)
        /\ geminiState' = Loading(geminiState, "gemini", next)
        /\ IF "scraper" \in next
           THEN /\ loggedTasks' = LoggedTasks(scrapeTasks, call, created)
                /\ taskLog' = TaskRows(scrapeTasks, call, created)
           ELSE UNCHANGED <<loggedTasks, taskLog>>
        /\ IF Accepted(out)
           THEN /\ settled' = Returned(GoogleResult(out.value, call.originPrompt))
                /\ state' = ResultState(state, GoogleResult(out.value, call.originPrompt))
                /\ ShowResult(Returned(GoogleResult(out.value, call.originPrompt)))
                /\ pc' = "done"
           ELSE UNCHANGED <<settled, state, pc, grid>>
        /\ UNCHANGED <<call, scrapeTasks, auditUpdates>>

\* fetchScrapedProducts settles (status updates included); routeUserIntent
\* accepts it or falls back to Gemini
ScraperSettles(resp, applied) ==
    LET out == fetchScrapedProducts(resp)
        updates == StatusUpdates(loggedTasks, call, out)
        next == IF Accepted(out) THEN {} ELSE NextSources("scraper")
    IN  /\ pc = "routing"
        /\ "scraper" \in inflight
        /\ applied \subseteq 1..Len(updates)
        /\ scraperState' = ScraperState(scraperState, out)
        /\ auditUpdates' = auditUpdates \o updates
        /\ taskLog' = ApplyUpdates(taskLog, updates, applied)
        /\ received' = Append(received, [source |-> "scraper", resp |-> resp, out |-> out])
        /\ sent' = sent \o Requests(next, call, scrapeTasks)
        /\ inflight' = (inflight \ {"scraper"}) \cup next
        /\ googleState' = Loading(googleState, "google", next)
        /\ geminiState' = Loading(geminiState, "gemini", next)
        /\ IF Accepted(out)
           THEN /\ settled' = Returned(ScraperResult(out.value, call.originPrompt))
                /\ state' = ResultState(state, ScraperResult(out.value, call.originPrompt))
                /\ ShowResult(Returned(ScraperResult(out.value, call.originPrompt)))
                /\ pc' = "done"
           ELSE UNCHANGED <<settled, state, pc, grid>>
        /\ UNCHANGED <<call, scrapeTasks, loggedTasks>>

\* fetchGeminiSuggestions settles; its result is returned whatever it holds
GeminiSettles(resp) ==
    LET out == fetchGeminiSuggestions(resp)
    IN  /\ pc = "routing"
        /\ "gemini" \in inflight
        /\ geminiState' = GeminiState(geminiState, resp)
        /\ received' = Append(received, [source |-> "gemini", resp |-> resp, out |-> out])
        /\ inflight' = inflight \ {"gemini"}
        /\ IF out.kind = "throw"
           THEN /\ settled' = RouterCatch(call.parsedPrompt, call.originPrompt, out)
                /\ state' = RouterCatchState(state, out)
                /\ ShowResult(RouterCatch(call.parsedPrompt, call.originPrompt, out))
           ELSE /\ settled' = Returned(GeminiResult(out.value, call.originPrompt))
                /\ state' = ResultState(state, GeminiResult(out.value, call.originPrompt))
                /\ ShowResult(Returned(GeminiResult(out.value, call.originPrompt)))
        /\ pc' = "done"
        /\ UNCHANGED <<call, scrapeTasks, googleState, scraperState, sent, taskLog, loggedTasks, auditUpdates>>

SessionArgs == {EmptyObj} \cup {[sessionId |-> s] : s \in SessionIds}

Next ==
    \/ \E p \in ParsedPrompts, o \in Prompts, f \in BOOLEAN, s \in SessionArgs :
          Resolve(p, o, f, s) /\ UNCHANGED <<dashVars, card, chart, extraVars>>
    \/ \E r \in GoogleResponses : \E created \in CreatedChoices(scrapeTasks) :
          GoogleSettles(r, created) /\ UNCHANGED <<dashVars, card, chart, extraVars>>
    \/ \E r \in ScraperResponses : \E applied \in SUBSET (1..Len(loggedTasks)) :
          ScraperSettles(r, applied) /\ UNCHANGED <<dashVars, card, chart, extraVars>>
    \/ \E r \in GeminiResponses : GeminiSettles(r) /\ UNCHANGED <<dashVars, card, chart, extraVars>>

Spec == Init /\ [][Next]_vars

\* ----------------------------------------------- one card and one chart
MaxRenders == 3       \* renders of one mounted card

CardSources == {"scraper", "gemini", "google", "amazon", "analysis"}

\* products as the adapters hand them over
AdapterItems ==
    {Typed(ScraperItem(i)) : i \in 1..2}
      \cup {Typed(GoogleItem(1)), Typed(getMockProducts[1])}
      \cup {Typed(TransformSuggestion(AIItems[i])) : i \in 1..Len(AIItems)}

\* products that miss every optional field or carry malformed ones
PartialItems ==
    {EmptyObj,
     [name |-> Str("Galaxy S23"), title |-> Str("Samsung Galaxy S23 Ultra")],
     [name |-> Str(""), title |-> Str("Pixel 8")],
     [name |-> Num(42)],
     [title |-> Num(0)],
     [name |-> Obj("{\"en\":\"Phone\"}")],
     [name |-> Str("Gaming Laptop"), specifications |-> Obj("{\"ram\":\"16GB\"}")],
     [name |-> Str("Gaming Laptop"), specifications |-> Str("Intel i7, 16GB RAM")],
     [title |-> Str("Poco X5"), description |-> Obj("{}"), link |-> Str("https://shop.example/poco")],
     [name |-> Str("Phone X"), price |-> Str(""), price_display |-> Str("Rs 14,999")],
     [name |-> Str("Phone X"), price |-> Str("Price not available"), price_display |-> Str("Rs 14,999")],
     [name |-> Str("Phone X"), price |-> Str("Price not available")],
     [name |-> Str("Phone X"), price |-> Num(499)],
     [name |-> Str("Phone X"), price |-> Obj("{\"amount\":499}")],
     [price |-> Str(""), price_display |-> Str("")],
     [name |-> Str("Phone Y"), price_value |-> Num(59999), price_display |-> Str("")],
     [name |-> Str("Phone Y"), price_value |-> Num(16999), price_display |-> Str("Rs 16,999")],
     [name |-> Str("Phone Y"), price_value |-> Num(0)],
     [name |-> Str("Phone Y"), price_value |-> Num(-5)],
     [name |-> Str("Phone Y"), price_value |-> Obj("{}")],
     [title |-> Str("iPhone 14"), price_value |-> Num(999)],
     [title |-> Str("iPhone 14")],
     [name |-> Str("Samsung Galaxy S23 Ultra"), url |-> Str("https://shop.example/s23"), rating |-> Num(4),
      snippet |-> Str("flagship"), brand |-> Str("Samsung"), availability |-> Str("In stock")]}

RawItems == AdapterItems \cup PartialItems

InitCard ==
    /\ InitRouter /\ InitPage /\ InitMessages /\ storage = EmptyObj
    /\ grid = <<>>
    /\ chart = <<>>
    /\ card \in {[product |-> p, source |-> s, isRAGChatOpen |-> FALSE, renders |-> <<>>] :
                    p \in RawItems, s \in CardSources}

\* the card can be rendered (again): it was not torn down by an error
Renderable ==
    /\ Len(card.renders) < MaxRenders
    /\ card.renders # <<>> => card.renders[Len(card.renders)].kind = "return"

\* React renders the card (on mount, or when its parent renders again)
Render ==
    /\ Renderable
    /\ card' = [card EXCEPT !.renders = Append(@, ProductCard(card.product, card.source, card.isRAGChatOpen))]
    /\ UNCHANGED <<routerVars, dashVars, grid, chart, extraVars>>

\* setIsRAGChatOpen(open) ("Ask AI" or the onClose of the chat) and the
\* render it causes
SetChatOpen(open) ==
    /\ card.renders # <<>>
    /\ Renderable
    /\ card' = [card EXCEPT !.isRAGChatOpen = open,
                            !.renders = Append(@, ProductCard(card.product, card.source, open))]
    /\ UNCHANGED <<routerVars, dashVars, grid, chart, extraVars>>

\* the price chart is shown for the product of the card
ShowPriceChart ==
    /\ chart = <<>>
    /\ chart' = <<ProductChart(<<card.product>>)>>
    /\ UNCHANGED <<routerVars, dashVars, grid, card, extraVars>>

NextCard ==
    \/ Render
    \/ \E open \in BOOLEAN : SetChatOpen(open)
    \/ ShowPriceChart

SpecCard == InitCard /\ [][NextCard]_vars

\* ------------------------------------------------- one grid on its own
\* list entries that are no product object
InvalidEntries == {Null, Undefined, Str("iPhone 14"), Num(0)}

ValidEntry == Typed(ScraperItem(1))

\* the product lists of an envelope: empty, without any valid object, mixed, valid
GridProducts ==
    {<<>>}
      \cup {<<e>> : e \in InvalidEntries}
      \cup {<<Null, e>> : e \in InvalidEntries}
      \cup {<<e, ValidEntry>> : e \in InvalidEntries}
      \cup {<<x>> : x \in AdapterItems}
      \cup {[i \in 1..(GridAiLimit + 1) |-> ValidEntry]}

\* MessagesArea renders the grid of an envelope
RenderGrid(products, source, fallback) ==
    /\ gridProps = <<>>
    /\ gridProps' = <<[products |-> products, source |-> source, fallback |-> fallback]>>
    /\ grid' = <<ProductGrid(products, source, fallback)>>
    /\ UNCHANGED <<routerVars, dashVars, card, chart, amazon, rs, accounts>>

NextGrid == \E products \in GridProducts, source \in CardSources, fallback \in BOOLEAN : RenderGrid(products, source, fallback)

SpecGrid == Init /\ [][NextGrid]_vars

\* ------------------------------------- PATCH /api/admin/users/[userId]
MaxUpdating == 2      \* role updates between their checks and their database write

\* the userId of the path: a row of the database or an id that matches none
UserIds == Users \cup {"nobody"}

\* the role of the request body; an absent one is a record without the field
Bodies == {EmptyObj, [role |-> "user"], [role |-> "admin"], [role |-> "owner"]}

\* the database as a deployment with at least one admin can hold it
UserTables == {t \in [Users -> {"user", "admin"}] : \E u \in Users : t[u] = "admin"}

InitAccounts ==
    /\ InitRouter /\ InitPage /\ InitView /\ storage = EmptyObj
    /\ amazon = [isScrapingAmazon |-> {}, amazonResults |-> EmptyObj, requests |-> <<>>]
    /\ rs = [r \in Calls |-> [pc |-> "idle"]]
    /\ gridProps = <<>>
    /\ accounts \in {[users |-> t, tokens |-> EmptyObj, updating |-> {}, status |-> 0] : t \in UserTables}

accountsFrame == <<routerVars, dashVars, viewVars, amazon, rs, gridProps>>

\* authorize and the jwt callback: the role of the row goes into the token
SignIn(u) ==
    /\ ~Has(accounts.tokens, u)
    /\ accounts' = [accounts EXCEPT !.tokens = Spread(@, [k \in {u} |-> accounts.users[u]])]
    /\ UNCHANGED accountsFrame

\* the token is dropped (sign out, or it expired)
SignOut(u) ==
    /\ Has(accounts.tokens, u)
    /\ accounts' = [accounts EXCEPT !.tokens = [k \in DOMAIN @ \ {u} |-> @[k]]]
    /\ UNCHANGED accountsFrame

\* the status PATCH answers with before it reaches the database, 0 if none:
\* the role of the caller is the one the session callback copies from the token
PatchChecks(caller, userId, body) ==
    IF ~Has(accounts.tokens, caller) THEN 401
    ELSE IF accounts.tokens[caller] # "admin" THEN 403
    ELSE IF ~Has(body, "role") \/ body.role \notin {"user", "admin"} THEN 400
    ELSE IF caller = userId /\ body.role # "admin" THEN 400
    ELSE 0

\* PATCH up to "await db.user.update"
Patch(caller, userId, body) ==
    /\ Cardinality(accounts.updating) < MaxUpdating
    /\ IF PatchChecks(caller, userId, body) # 0
       THEN accounts' = [accounts EXCEPT !.status = PatchChecks(caller, userId, body)]
       ELSE accounts' = [accounts EXCEPT !.updating = @ \cup {[userId |-> userId, role |-> body.role]}]
    /\ UNCHANGED accountsFrame

\* db.user.update settles: the row is written, or no row matches and the
\* catch block answers 500
PatchSettles(update) ==
    /\ update \in accounts.updating
    /\ IF update.userId \in Users
       THEN accounts' = [accounts EXCEPT !.users[update.userId] = update.role,
                                         !.updating = @ \ {update}, !.status = 200]
       ELSE accounts' = [accounts EXCEPT !.updating = @ \ {update}, !.status = 500]
    /\ UNCHANGED accountsFrame

NextAccounts ==
    \/ \E u \in Users : SignIn(u)
    \/ \E u \in Users : SignOut(u)
    \/ \E caller \in Users \cup {"anonymous"}, userId \in UserIds, body \in Bodies : Patch(caller, userId, body)
    \/ \E update \in accounts.updating : PatchSettles(update)

SpecAccounts == InitAccounts /\ [][NextAccounts]_vars

\* --------------------------------- routeUserIntent calls running side by side
\* what the overlapping calls are given (no sessionId: nothing is logged)
ConcurrentQueries ==
    {[parsedPrompt |-> [intent |-> "compare", products |-> SubSeq(AllProducts, 1, 2)],
      originPrompt |-> "compare iPhone 14 and Poco X5"],
     [parsedPrompt |-> [intent |-> "search", products |-> SubSeq(AllProducts, 3, 3)],
      originPrompt |-> "Galaxy S23"],
     [parsedPrompt |-> [intent |-> "compare"], originPrompt |-> "compare them"]}

\* the answers an adapter call of an overlapping call can get
ConcurrentResponses(source) ==
    IF source = "google"
    THEN {[kind |-> "reject", reason |-> "network"]}
           \cup {[kind |-> "response", ok |-> TRUE, body |-> [success |-> TRUE, results |-> GoogleList(n)]] : n \in 0..MaxItems}
    ELSE IF source = "scraper"
    THEN {[kind |-> "response", ok |-> FALSE, body |-> [detail |-> "scraper busy"]]}
           \cup {[kind |-> "response", ok |-> TRUE, body |-> [success |-> TRUE, results |-> ScraperList(n)]] : n \in 0..MaxItems}
    ELSE {[kind |-> "reject", reason |-> "timeout"]}
           \cup {[kind |-> "response", ok |-> TRUE, body |-> [suggestions |-> AIList(n)]] : n \in 0..MaxItems}

\* variant: the call returns the result it finds in the state of the hook
ReturnedEnvelopeFromState(result) == IF state.result # <<>> THEN state.result[1] ELSE result

\* "return result": the const built in the call itself
ReturnedEnvelope(result) == result

\* the call returns an envelope and stores it in the state of the hook
ReturnResult(r, resp, result) ==
    /\ rs' = [rs EXCEPT ![r] = Spread(@, [pc |-> "done", responses |-> Append(@.responses, resp),
                                            settled |-> Returned(ReturnedEnvelope(result))])]
    /\ state' = ResultState(state, result)

\* the outer catch block of a call
CatchResult(r, c, responses, err) ==
    /\ rs' = [rs EXCEPT ![r] = [pc |-> "done", call |-> c, responses |-> responses,
                                 settled |-> RouterCatch(c.parsedPrompt, c.originPrompt, err)]]
    /\ state' = RouterCatchState(state, err)

\* the call goes on to the next adapter
Await(r, source, responses) ==
    /\ rs' = [rs EXCEPT ![r] = Spread(@, [pc |-> source, responses |-> responses])]
    /\ UNCHANGED state

\* routeUserIntent of one of the overlapping calls, up to its first await
routeUserIntent(r, query, forceAI) ==
    LET c == Spread(query, [forceAI |-> forceAI])
        built == buildScrapeInstructions(c.parsedPrompt)
        first == FirstSources(forceAI)
    IN  /\ rs[r].pc = "idle"
        /\ IF built.kind = "throw"
           THEN /\ CatchResult(r, c, <<>>, built)
                /\ UNCHANGED <<googleState, scraperState, geminiState>>
           ELSE /\ rs' = [rs EXCEPT ![r] = [pc |-> CHOOSE f \in first : TRUE, call |-> c,
                                             scrapeTasks |-> built.value, responses |-> <<>>]]
                /\ state' = [state EXCEPT !.isLoading = TRUE, !.error = "null"]
                /\ googleState' = Loading(googleState, "google", first)
                /\ scraperState' = Loading(scraperState, "scraper", first)
                /\ geminiState' = Loading(geminiState, "gemini", first)

\* searchProducts of a call settles
ConcurrentGoogleSettles(r, resp) ==
    LET out == searchProducts(resp)
        responses == Append(rs[r].responses, resp)
    IN  /\ rs[r].pc = "google"
        /\ googleState' = SearchState(googleState, out)
        /\ geminiState' = Loading(geminiState, "gemini", IF Accepted(out) THEN {} ELSE NextSources("google"))
        /\ scraperState' = Loading(scraperState, "scraper", IF Accepted(out) THEN {} ELSE NextSources("google"))
        /\ IF Accepted(out)
           THEN ReturnResult(r, resp, GoogleResult(out.value, rs[r].call.originPrompt))
           ELSE Await(r, CHOOSE n \in NextSources("google") : TRUE, responses)

\* fetchScrapedProducts of a call settles
ConcurrentScraperSettles(r, resp) ==
    LET out == fetchScrapedProducts(resp)
        responses == Append(rs[r].responses, resp)
    IN  /\ rs[r].pc = "scraper"
        /\ scraperState' = ScraperState(scraperState, out)
        /\ geminiState' = Loading(geminiState, "gemini", IF Accepted(out) THEN {} ELSE NextSources("scraper"))
        /\ UNCHANGED googleState
        /\ IF Accepted(out)
           THEN ReturnResult(r, resp, ScraperResult(out.value, rs[r].call.originPrompt))
           ELSE Await(r, CHOOSE n \in NextSources("scraper") : TRUE, responses)

\* fetchGeminiSuggestions of a call settles
ConcurrentGeminiSettles(r, resp) ==
    LET out == fetchGeminiSuggestions(resp)
        responses == Append(rs[r].responses, resp)
    IN  /\ rs[r].pc = "gemini"
        /\ geminiState' = GeminiState(geminiState, resp)
        /\ UNCHANGED <<googleState, scraperState>>
        /\ IF out.kind = "throw"
           THEN CatchResult(r, rs[r].call, responses, out)
           ELSE ReturnResult(r, resp, GeminiResult(out.value, rs[r].call.originPrompt))

concurrentFrame == <<pc, call, scrapeTasks, sent, inflight, received, settled, taskLog, loggedTasks, auditUpdates,
                     dashVars, viewVars, amazon, gridProps, accounts>>

NextConcurrent ==
    \/ \E r \in Calls, q \in ConcurrentQueries, f \in BOOLEAN : routeUserIntent(r, q, f) /\ UNCHANGED concurrentFrame
    \/ \E r \in Calls, resp \in ConcurrentResponses("google") : ConcurrentGoogleSettles(r, resp) /\ UNCHANGED concurrentFrame
    \/ \E r \in Calls, resp \in ConcurrentResponses("scraper") : ConcurrentScraperSettles(r, resp) /\ UNCHANGED concurrentFrame
    \/ \E r \in Calls, resp \in ConcurrentResponses("gemini") : ConcurrentGeminiSettles(r, resp) /\ UNCHANGED concurrentFrame

SpecConcurrent == Init /\ [][NextConcurrent]_vars

\* ------------------------------------------------------------ properties
\* the sources called in this resolution, in call order
Invoked == [i \in 1..Len(sent) |-> sent[i].source]

PriorityOrder == <<"google", "scraper", "gemini">>

\* the pipeline's primary (first-priority) source
PrimarySource == PriorityOrder[1]

Resolving == Has(call, "parsedPrompt")

\* the query satisfies the data model: it carries a product list
WellFormed == Resolving /\ Has(call.parsedPrompt, "products")

Forced == Resolving /\ call.forceAI

Unforced == Resolving /\ ~call.forceAI

Finished == pc = "done" /\ settled.kind = "return"

\* a backend response that carries no item: transport error, timeout, HTTP
\* error, unparsable body, explicit unsuccessful answer, or zero items
NoItems(resp, field) ==
    \/ resp.kind = "reject"
    \/ ~resp.ok
    \/ ~Has(resp, "body")
    \/ ~(Has(resp.body, "success") /\ resp.body.success)
    \/ Len(IF field = "results" THEN ListOf(resp.body, "results") ELSE ExtractScraped(resp.body)) = 0

\* the AI request failed or answered with no suggestion
AINoItems(resp) ==
    \/ resp.kind = "reject"
    \/ ~resp.ok
    \/ ~Has(resp, "body")
    \/ Len(ListOf(resp.body, "suggestions")) = 0
    \/ \E i \in 1..Len(ListOf(resp.body, "suggestions")) : resp.body.suggestions[i] = Null

\* the AI request failed (anything but a parsed answer)
AIRequestFailed(resp) == AINoItems(resp) /\ ~(resp.kind = "response" /\ resp.ok /\ Has(resp, "body") /\ Len(ListOf(resp.body, "suggestions")) = 0)

AllSourcesFailed ==
    /\ Len(received) = 3
    /\ received[1].source = "google" /\ NoItems(received[1].resp, "results")
    /\ received[2].source = "scraper" /\ NoItems(received[2].resp, "scraped")
    /\ received[3].source = "gemini" /\ AINoItems(received[3].resp)

\* C1: routeUserIntent never rejects: whatever the query (a malformed one
\* included), forceAI and the outcomes of the three adapters, the promise
\* never settles by throwing, and once the handler is done it has returned an
\* envelope for the prompt it was given.
C1_NeverRaises ==
    /\ settled.kind # "throw"
    /\ pc = "done" =>
          /\ settled.kind = "return"
          /\ settled.value.source \in {"google", "scraper", "gemini"}
          /\ settled.value.originalPrompt = call.originPrompt
          /\ Len(settled.value.data) >= 0

C1_Witness ==
    /\ Finished /\ WellFormed /\ Len(call.parsedPrompt.products) > 0
    /\ Len(received) = 3
    /\ \A i \in 1..3 : received[i].resp.kind = "reject"

\* C2 as stated: when WebSearch, Scraper and AIGenerator all fail, the
\* envelope is empty, from the AI source and flagged as fallback.
C2_TotalFailureEmpty ==
    (Finished /\ WellFormed /\ AllSourcesFailed) =>
        /\ settled.value.data = <<>>
        /\ settled.value.source = "gemini"
        /\ IsFallback(settled.value)

\* C2 amended: when all three sources fail, the envelope is from the AI source
\* and flagged as fallback for every intent; its products are the two mock
\* products when the AI request failed, and empty only when the AI answered
\* with zero suggestions.
C2_TotalFailureMock ==
    (Finished /\ WellFormed /\ AllSourcesFailed) =>
        /\ settled.value.source = "gemini"
        /\ IsFallback(settled.value)
        /\ settled.value.data = IF AIRequestFailed(received[3].resp) THEN getMockProducts ELSE <<>>

C2_Witness ==
    /\ Finished /\ WellFormed /\ AllSourcesFailed
    /\ call.parsedPrompt.intent = "search"
    /\ received[3].resp.kind = "reject"
    /\ Len(settled.value.data) = 2

C4_Fallthrough ==
    (/\ Unforced /\ Len(received) >= 2
     /\ received[1].source = "google" /\ received[1].out.kind = "return" /\ received[1].out.value = <<>>
     /\ received[2].source = "scraper" /\ received[2].out.kind = "return" /\ Len(received[2].out.value) >= 1)
    => /\ Finished
       /\ settled.value.source = "scraper"
       /\ IsFallback(settled.value)
       /\ settled.value.data = received[2].out.value
       /\ \A i \in 1..Len(Invoked) : Invoked[i] # "gemini"

C4_Witness ==
    /\ Unforced /\ Finished /\ Len(received) = 2
    /\ received[1].out.kind = "return" /\ received[1].out.value = <<>>
    /\ received[2].resp.kind = "response" /\ Has(received[2].resp, "body")
    /\ Has(received[2].resp.body, "results")
    /\ settled.value.source = "scraper" /\ Len(settled.value.data) = 2

\* C5: the quality gate checks the count only: the result of WebSearch or
\* Scraper is accepted (the pipeline stops with it) exactly when its item list
\* is non-empty; a Scraper answer holding the single item {} is accepted with
\* one product and the AIGenerator is not called.
C5_QualityGate ==
    \A i \in 1..Len(received) :
        received[i].source \in {"google", "scraper"} =>
            /\ (received[i].out.kind = "return" /\ Len(received[i].out.value) > 0)
                 <=> (Finished /\ i = Len(received) /\ settled.value.source = received[i].source
                      /\ settled.value.data = received[i].out.value)
            /\ (received[i].source = "scraper" /\ received[i].out = Returned(<<EmptyObj>>))
                 => (Finished /\ Len(settled.value.data) = 1 /\ \A j \in 1..Len(Invoked) : Invoked[j] # "gemini")

C5_Witness ==
    /\ Finished /\ Len(received) = 2 /\ received[2].source = "scraper"
    /\ received[2].resp.kind = "response" /\ Has(received[2].resp, "body")
    /\ ExtractScraped(received[2].resp.body) = <<EmptyObj>>
    /\ settled.value.source = "scraper" /\ settled.value.data = <<EmptyObj>>

\* C6: with forceAI only the AIGenerator is called, and the envelope is from
\* the AI source and flagged as fallback whatever the AI returns.
C6_ForceAIBypass ==
    (Forced /\ WellFormed) =>
        /\ \A i \in 1..Len(Invoked) : Invoked[i] = "gemini"
        /\ Len(Invoked) <= 1
        /\ pc = "done" => /\ settled.kind = "return"
                          /\ settled.value.source = "gemini"
                          /\ IsFallback(settled.value)
                          /\ settled.value.data = received[1].out.value

C6_Witness ==
    /\ Forced /\ WellFormed /\ Finished
    /\ Invoked = <<"gemini">>
    /\ settled.value.data = <<>>

\* C7: every envelope delivered to the UI that is flagged as fallback comes
\* from a source other than the primary one (Google Search).
C7_FallbackNotPrimary ==
    /\ Finished => (IsFallback(settled.value) => settled.value.source # PrimarySource)
    /\ \A i \in 1..Len(panel) : IsFallback(panel[i].result) => panel[i].result.source # PrimarySource

\* C8: without forceAI the envelope names the source whose result was taken,
\* and it is flagged as fallback exactly when that source is not the first
\* one tried.
C8_FallbackFlag ==
    (Unforced /\ WellFormed /\ Finished) =>
        /\ settled.value.source = received[Len(received)].source
        /\ IsFallback(settled.value) <=> (settled.value.source # Invoked[1])

C8_Witness ==
    /\ Unforced /\ WellFormed /\ Finished
    /\ settled.value.source = "google" /\ ~IsFallback(settled.value)
    /\ Len(settled.value.data) = MaxItems

\* C9: sources are tried strictly one after the other: at most one adapter
\* call is in flight, every call but the first is made only after the call
\* before it settled without an accepted result, no source is called twice,
\* and nothing is in flight once the envelope is returned.
C9_Sequential ==
    /\ Cardinality(inflight) <= 1
    /\ \A i \in 2..Len(sent) :
          /\ Len(received) >= i - 1
          /\ received[i - 1].source = sent[i - 1].source
          /\ ~(received[i - 1].out.kind = "return" /\ Len(received[i - 1].out.value) > 0)
    /\ \A i, j \in 1..Len(sent) : sent[i].source = sent[j].source => i = j
    /\ pc = "done" => (inflight = {} /\ Len(sent) = Len(received))

C9_Witness ==
    /\ pc = "routing" /\ inflight = {"gemini"} /\ Len(sent) = 3 /\ Len(received) = 2

\* C10: every way a non-terminal source can fail (transport error, timeout,
\* HTTP error such as quota exceeded, unsuccessful answer, zero items) makes
\* the pipeline call the next source, and the envelope then depends on the
\* outcomes of the later sources only.
C10_UniformFailure ==
    /\ (Len(received) >= 1 /\ received[1].source = "google" /\ NoItems(received[1].resp, "results"))
         => (Len(sent) >= 2 /\ sent[2].source = "scraper")
    /\ (Len(received) >= 2 /\ received[2].source = "scraper" /\ NoItems(received[2].resp, "scraped"))
         => (Len(sent) >= 3 /\ sent[3].source = "gemini")
    /\ (Finished /\ Len(received) >= 2 /\ received[1].source = "google" /\ NoItems(received[1].resp, "results"))
         => settled.value =
              IF ~NoItems(received[2].resp, "scraped")
              THEN [source |-> "scraper", data |-> ExtractScraped(received[2].resp.body),
                    originalPrompt |-> call.originPrompt, fallback |-> TRUE]
              ELSE [source |-> "gemini", data |-> received[3].out.value,
                    originalPrompt |-> call.originPrompt, fallback |-> TRUE]

C10_Witness ==
    /\ Finished /\ Len(received) = 3
    /\ received[1].resp.kind = "response" /\ received[1].resp.ok /\ Has(received[1].resp, "body")
    /\ ~(Has(received[1].resp.body, "success") /\ received[1].resp.body.success)
    /\ received[2].resp.kind = "reject" /\ received[2].resp.reason = "timeout"
    /\ settled.value.source = "gemini" /\ Len(settled.value.data) = MaxItems

\* the submission ran past the limit checks, is finished, its timer (if any)
\* has fired, and no other submission was made on the page
FinishedAlone(h) ==
    /\ hs[h].pc = "done" /\ Has(hs[h], "prompt")
    /\ \A g \in Submissions \ {h} : hs[g].pc = "idle"
    /\ timers = <<>>

\* C11: every submitted query delivers exactly one result envelope to the UI
\* (the prompt panel), whatever the central query endpoint answers: never
\* none and never more than one.
C11_ExactlyOneEnvelope ==
    \A h \in Submissions : FinishedAlone(h) => Len(panel) = 1

\* ---- normalization: the card and the chart
Mounted == Has(card, "renders")

\* the renders of the card that produced output
Outputs == SelectSeq(card.renders, LAMBDA r : r.kind = "return")

\* the numeric price of a product: the price the price chart plots for it,
\* 0 when it plots none
PriceValueOf(product) ==
    LET c == ProductChart(<<product>>)
    IN  IF c.kind = "return" /\ c.value.view = "chart" THEN c.value.priceData[1].price ELSE 0

\* the text of a string property, "" when it is absent or not a usable text
TextOf(product, f) ==
    IF Prop(product, f).t = "string" THEN Prop(product, f).s ELSE ""

\* C12: normalization is total: for every raw item, one that misses every
\* optional field or carries malformed fields included, the card and the
\* chart produce their output without throwing, and the name is
\* "Unknown Product" when the item has no usable name or title.
C12_NormalizationTotal ==
    Mounted =>
        /\ \A i \in 1..Len(card.renders) : card.renders[i].kind = "return"
        /\ chart # <<>> => chart[1].kind = "return"
        /\ \A i \in 1..Len(Outputs) :
              (~Truthy(Prop(card.product, "name")) /\ ~Truthy(Prop(card.product, "title")))
                 => Outputs[i].value.productName = "Unknown Product"

\* C13 as stated: the name is the first non-empty of title, then name, else
\* "Unknown Product", and is never empty.
C13_TitleFirst ==
    Mounted =>
        \A i \in 1..Len(Outputs) :
            /\ Outputs[i].value.productName # ""
            /\ Outputs[i].value.productName =
                  safeString(IF Truthy(Prop(card.product, "title")) THEN card.product.title
                             ELSE IF Truthy(Prop(card.product, "name")) THEN card.product.name
                             ELSE Str("Unknown Product"))

\* C13 amended: the name the card shows is the first non-empty of name, then
\* title (an item carrying both gets the name), else "Unknown Product"; it
\* is never empty.
C13_NameFirst ==
    Mounted =>
        \A i \in 1..Len(Outputs) :
            /\ Outputs[i].value.productName # ""
            /\ Outputs[i].value.productName =
                  safeString(IF Truthy(Prop(card.product, "name")) THEN card.product.name
                             ELSE IF Truthy(Prop(card.product, "title")) THEN card.product.title
                             ELSE Str("Unknown Product"))

C13_Witness ==
    /\ Mounted /\ Len(Outputs) >= 1
    /\ TextOf(card.product, "name") = "Galaxy S23"
    /\ TextOf(card.product, "title") = "Samsung Galaxy S23 Ultra"
    /\ Outputs[1].value.productName = "Galaxy S23"

Scenario ==
    /\ Unforced /\ WellFormed /\ call.parsedPrompt.intent = "compare"
    /\ Len(received) >= 2
    /\ received[1].source = "google" /\ received[1].resp.kind = "response" /\ received[1].resp.ok
    /\ Has(received[1].resp, "body") /\ received[1].resp.body = [success |-> TRUE, results |-> <<>>]
    /\ received[2].source = "scraper" /\ received[2].resp.kind = "response" /\ received[2].resp.ok
    /\ Has(received[2].resp, "body")
    /\ received[2].resp.body = [success |-> TRUE,
                                results |-> <<[title |-> "iPhone 14", price |-> "Rs 59999"],
                                              [title |-> "Poco X5 5G", price |-> "Rs 16999"]>>]

\* C16 as stated: in the scenario the envelope is from the scraper, flagged
\* as fallback, and holds two records whose numeric prices are 59999 and
\* 16999.
C16_ScenarioParsed ==
    (Scenario /\ grid # <<>>) =>
        /\ settled.value.source = "scraper" /\ IsFallback(settled.value)
        /\ Len(settled.value.data) = 2
        /\ PriceValueOf(Typed(settled.value.data[1])) = 59999
        /\ PriceValueOf(Typed(settled.value.data[2])) = 16999

\* C16 amended: in the scenario the envelope is from the scraper, flagged as
\* fallback, and holds the two items as received; they are shown under their
\* titles with their price texts, and their numeric price is 0: no number is
\* read out of a price text.
C16_ScenarioUnparsed ==
    Scenario =>
        /\ Finished
        /\ settled.value.source = "scraper" /\ IsFallback(settled.value)
        /\ settled.value.data = received[2].resp.body.results
        /\ \A i \in 1..2 : PriceValueOf(Typed(settled.value.data[i])) = 0
        /\ grid # <<>> =>
              /\ grid[1].view = "grid" /\ Len(grid[1].cards) = 2
              /\ grid[1].cards[1].productName = "iPhone 14" /\ grid[1].cards[1].productPrice = "Rs 59999"
              /\ grid[1].cards[2].productName = "Poco X5 5G" /\ grid[1].cards[2].productPrice = "Rs 16999"

C16_Witness ==
    /\ Scenario /\ grid # <<>> /\ grid[1].view = "grid"
    /\ Has(call.parsedPrompt, "filters") /\ call.parsedPrompt.filters = [price |-> "under 20000"]
    /\ call.parsedPrompt.products = <<"iPhone 14", "Poco X5">>

\* what a render shows of the product (the state of the chat window is not
\* part of it)
RecordOf(render) == [f \in (DOMAIN render) \ {"ragChatOpen"} |-> render[f]]

TasksBuilt == WellFormed /\ pc # "idle"

\* taskType for an intent
TaskTypeFor(intent) == IF intent = "compare" THEN "detail" ELSE "listing"

\* C18: one scrape task is built per product name, in the same order, with
\* taskType detail for a compare query and listing otherwise, and the
\* request the scraper adapter sends carries that taskType.
C18_TaskTypeInRequest ==
    TasksBuilt =>
        /\ Len(scrapeTasks) = Len(call.parsedPrompt.products)
        /\ \A i \in 1..Len(scrapeTasks) :
              /\ scrapeTasks[i].productName = call.parsedPrompt.products[i]
              /\ scrapeTasks[i].taskType = TaskTypeFor(call.parsedPrompt.intent)
        /\ \A i \in 1..Len(sent) :
              sent[i].source = "scraper" =>
                  /\ Has(sent[i], "taskType")
                  /\ sent[i].taskType = TaskTypeFor(call.parsedPrompt.intent)

\* C19: the scraper adapter issues its request once per resolution and never
\* again; it hands items to the pipeline exactly when the answer carries at
\* least one item; a network error, an HTTP error, an unsuccessful answer or
\* an empty item list surfaces as a thrown error or an empty list, which the
\* pipeline does not accept: it calls the AI source and the envelope is not
\* from the scraper.
C19_ScraperAdapter ==
    /\ Cardinality({i \in 1..Len(sent) : sent[i].source = "scraper"}) <= 1
    /\ \A i \in 1..Len(received) :
          received[i].source = "scraper" =>
              LET out == received[i].out
                  resp == received[i].resp
              IN  /\ (out.kind = "return" /\ Len(out.value) >= 1) <=> ~NoItems(resp, "scraped")
                  /\ NoItems(resp, "scraped") =>
                        /\ out.kind = "throw" \/ out.value = <<>>
                        /\ (resp.kind = "reject" \/ ~resp.ok \/ ~Has(resp, "body")) => out.kind = "throw"
                        /\ Len(sent) = 3 /\ sent[3].source = "gemini"
                        /\ Finished => settled.value.source = "gemini"
                  /\ ~NoItems(resp, "scraped") =>
                        (Finished /\ settled.value.source = "scraper" /\ settled.value.data = out.value)

C19_Witness ==
    /\ Finished /\ Len(received) = 3
    /\ received[2].source = "scraper" /\ received[2].resp.kind = "response" /\ ~received[2].resp.ok
    /\ received[2].out.kind = "throw" /\ received[2].out.message = "scraper busy"
    /\ settled.value.source = "gemini"


\* C20 as stated: a failed AI request (HTTP failure, non-JSON or malformed
\* answer) never escapes as an exception and contributes no products.
C20_FailedAIContributesNothing ==
    \A i \in 1..Len(received) :
        (received[i].source = "gemini" /\ AIRequestFailed(received[i].resp)) =>
            /\ received[i].out.kind = "return"
            /\ settled.kind # "throw"
            /\ Finished => settled.value.data = <<>>

\* C20 amended: a failed AI request never escapes as an exception; the
\* adapter records the error and hands the two mock products to the
\* pipeline, which returns them as the AI envelope.  An answer that parses
\* yields one product per suggestion (none for an empty list) and no error.
C20_FailedAIYieldsMock ==
    \A i \in 1..Len(received) :
        received[i].source = "gemini" =>
            LET out == received[i].out
                resp == received[i].resp
            IN  /\ out.kind = "return"
                /\ settled.kind = "return" /\ settled.value.source = "gemini"
                /\ settled.value.data = out.value
                /\ IF AIRequestFailed(resp)
                   THEN out.value = getMockProducts /\ geminiState.error # "null"
                   ELSE /\ Len(out.value) = Len(ListOf(resp.body, "suggestions"))
                        /\ geminiState.error = "null"

C20_Witness ==
    /\ Finished /\ Len(received) = 3 /\ received[3].source = "gemini"
    /\ received[3].resp.kind = "response" /\ received[3].resp.ok /\ ~Has(received[3].resp, "body")
    /\ settled.value.data = getMockProducts
    /\ geminiState.error = "Unexpected token in JSON"


\* ---- Amazon enrichment
\* an Amazon request ended in a failure: the flag is cleared and nothing stored
AmazonFailed ==
    /\ amazon.requests # <<>>
    /\ amazon.isScrapingAmazon = {}
    /\ amazon.amazonResults = EmptyObj

\* C21: the Amazon adapter is invoked only by the click on "Search Amazon" of a
\* message whose envelope has amazonReady and a query payload, never by a step
\* of handlePromptSubmit; an Amazon failure issues no other request and
\* leaves the envelopes of the panel and of the page as they were.
C21_AmazonOnDemand ==
    /\ [](\A i \in 1..Len(amazon.requests) :
            LET r == amazon.requests[i]
            IN  /\ r.messageId \in MessageIds
                /\ panel[r.messageId].result.amazonReady
                /\ r.body # Null
                /\ r.body = panel[r.messageId].result.amazonQueryData)
    /\ [][amazon.requests' # amazon.requests =>
              /\ Len(amazon.requests') = Len(amazon.requests) + 1
              /\ hs' = hs /\ queries' = queries /\ panel' = panel /\ page' = page]_vars
    /\ [][(amazon.isScrapingAmazon' # amazon.isScrapingAmazon /\ amazon.amazonResults' = amazon.amazonResults
            /\ amazon.requests' = amazon.requests) =>
              /\ queries' = queries /\ hs' = hs /\ timers' = timers
              /\ panel' = panel /\ page' = page]_vars

C21_Witness ==
    /\ AmazonFailed
    /\ \E i \in 1..Len(toasts) : toasts[i] = "error: blocked by Amazon"
    /\ Len(panel) = 2


\* ---- overlapping calls
\* the envelope of fetchGeminiSuggestions + return, for a call that ran alone
AloneGemini(c, resp) ==
    LET out == fetchGeminiSuggestions(resp)
    IN  IF out.kind = "throw" THEN RouterCatch(c.parsedPrompt, c.originPrompt, out)
        ELSE Returned(GeminiResult(out.value, c.originPrompt))

\* the envelope a call returns when it runs alone with the given arguments
\* and the given answers to its own adapter calls
Alone(c, responses) ==
    LET built == buildScrapeInstructions(c.parsedPrompt)
    IN  IF built.kind = "throw" THEN RouterCatch(c.parsedPrompt, c.originPrompt, built)
        ELSE IF c.forceAI THEN AloneGemini(c, responses[1])
        ELSE IF Accepted(searchProducts(responses[1]))
             THEN Returned(GoogleResult(searchProducts(responses[1]).value, c.originPrompt))
        ELSE IF Accepted(fetchScrapedProducts(responses[2]))
             THEN Returned(ScraperResult(fetchScrapedProducts(responses[2]).value, c.originPrompt))
        ELSE AloneGemini(c, responses[3])

\* C22: whatever the interleaving of the overlapping routeUserIntent calls,
\* each call returns the envelope it would return alone with its own query,
\* its own forceAI flag and the answers to its own adapter calls.
C22_Independent ==
    \A r \in Calls : rs[r].pc = "done" => rs[r].settled = Alone(rs[r].call, rs[r].responses)

\* both calls overlapped, got different answers and returned different
\* envelopes, and the hook state holds the envelope of r1, which returned last
C22_Witness ==
    /\ \A r \in Calls : rs[r].pc = "done" /\ rs[r].settled.kind = "return" /\ Len(rs[r].responses) = 3
    /\ rs["r1"].settled.value.source = "gemini" /\ Len(rs["r1"].settled.value.data) = 2
    /\ rs["r2"].settled.value.source = "gemini" /\ Len(rs["r2"].settled.value.data) = 1
    /\ rs["r1"].call.originPrompt # rs["r2"].call.originPrompt
    /\ state.result = <<rs["r1"].settled.value>>
    /\ Len(geminiState.data) = 1


\* ---- the product grid
\* the alerts that tell the user the results come from a fallback
FallbackBanners == {"gemini-fallback", "google-fallback"}

\* C23: the grid of an envelope with the fallback flag and at least one
\* product shows a fallback banner, whatever the source; the grid of an
\* envelope without the flag shows none.
C23_FallbackBanner ==
    (Finished /\ grid # <<>> /\ Len(settled.value.data) > 0 /\ grid[1].view = "grid") =>
        IF IsFallback(settled.value)
        THEN grid[1].banners \cap FallbackBanners # {}
        ELSE grid[1].banners \cap FallbackBanners = {}


\* an envelope whose list holds no valid object was rendered
NothingToShow ==
    /\ gridProps # <<>>
    /\ \A i \in 1..Len(gridProps[1].products) : ~IsObject(gridProps[1].products[i])

\* C24: the grid of an envelope whose product list is empty or holds no valid
\* object is the "no products" alert -- not a crash and not a grid without
\* cards -- for every source and fallback flag.
C24_NoResults ==
    NothingToShow =>
        /\ grid[1].view = "alert"
        /\ grid[1].title \in {"No products found", "No valid products found"}
        /\ Len(gridProps[1].products) = 0 => grid[1].title = "No products found"

C24_Witness ==
    /\ NothingToShow
    /\ Len(gridProps[1].products) = 2
    /\ gridProps[1].source = "gemini" /\ gridProps[1].fallback
    /\ grid[1].title = "No valid products found"


\* ---- quota
LimitReached == isGeminiLimitReached(storage) \/ isScrapeDoSearchLimitReached(storage)

\* handler h takes its first step
Submitted(h) == hs[h].pc = "idle" /\ hs'[h].pc # "idle"

\* C25: a submission that finds the Gemini or the ScrapeDo limit reached posts
\* no query, creates no session record and leaves the usage counters as they
\* are; the counters only change in the step of handlePromptSubmit that
\* counts the usage right before it posts the query.
C25_QuotaPreCheck ==
    /\ [](\A h \in Submissions : Has(hs[h], "blocked") => ~Has(promptSessions, h))
    /\ [][\A h \in Submissions : (Submitted(h) /\ LimitReached) =>
              /\ Has(hs'[h], "blocked") /\ hs'[h].pc = "done"
              /\ storage' = storage /\ queries' = queries /\ promptSessions' = promptSessions
              /\ panel' = panel /\ timers' = timers]_vars
    /\ [][storage' # storage =>
              /\ \E h \in Submissions : hs[h].pc \in {"idle", "logging"} /\ hs'[h].pc = "querying"
              /\ Len(queries') = Len(queries) + 1]_vars

\* the first query used the last request of the day, the second was blocked
C25_Witness ==
    /\ Has(hs["q2"], "blocked")
    /\ hs["q1"].pc = "done" /\ ~Has(hs["q1"], "blocked")
    /\ Len(queries) = 1
    /\ getUsage(storage, "gemini") = GeminiDailyLimit
    /\ DOMAIN promptSessions = {"q1"}


\* ---- prompt sessions
\* C26: the status updates handlePromptSubmit issues go to the session it
\* created for the same query: the error update of the catch block is
\* addressed to that session, a query that fails after its session was
\* logged does issue the error update, and a session that is done is never
\* set to error.
C26_AuditTargetsOwnSession ==
    /\ [](\A h \in Submissions :
            hs[h].pc = "error-updating" => hs[h].currentSessionId = <<hs[h].sessionId>>)
    /\ [][\A h \in Submissions :
              (hs[h].pc = "querying" /\ hs[h].authed /\ Has(promptSessions, hs[h].sessionId)) =>
                  hs'[h].pc # "done"]_vars
    /\ [][\A id \in DOMAIN promptSessions :
              promptSessions[id].status = "done" => promptSessions'[id].status = "done"]_vars


\* C27: the stored Gemini count of the day never exceeds the daily limit,
\* whatever the interleaving of the submissions that share the storage.
C27_GeminiBudget == getUsage(storage, "gemini") <= GeminiDailyLimit


\* C28: requests are blocked by the Gemini limit exactly when no remaining
\* Gemini request is reported.
C28_QuotaViewsAgree == isGeminiLimitReached(storage) <=> (getRemainingLimits(storage).gemini = 0)


\* ---- accounts
\* C29: at least one user row has role admin, whatever role updates PATCH accepted.
C29_AdminRemains == \E u \in Users : accounts.users[u] = "admin"


\* ---- scrape tasks
\* the status updates issued for a task id
UpdatesOf(taskId) == {u \in 1..Len(auditUpdates) : auditUpdates[u].taskId = taskId}

\* the task ids logScrapeTask handed back
LoggedIds == {loggedTasks[t].taskId : t \in {t \in 1..Len(loggedTasks) : Has(loggedTasks[t], "taskId")}}

\* C30: once fetchScrapedProducts has settled, every task it logged as
\* pending got exactly one status update -- scraped if the call returned a
\* list, error if it threw -- and no other update was issued; before that
\* none is issued; a failed scrape still reaches routeUserIntent as a throw,
\* which sends it on to Gemini.
C30_AuditLifecycle ==
    /\ (\A i \in 1..Len(received) : received[i].source # "scraper") => auditUpdates = <<>>
    /\ \A i \in 1..Len(received) :
          received[i].source = "scraper" =>
              LET out == received[i].out
              IN  /\ \A id \in LoggedIds :
                        /\ Cardinality(UpdatesOf(id)) = 1
                        /\ \A u \in UpdatesOf(id) :
                              /\ auditUpdates[u].status = "scraped" <=> out.kind = "return"
                              /\ auditUpdates[u].status = "error" <=> out.kind = "throw"
                  /\ \A u \in 1..Len(auditUpdates) : auditUpdates[u].taskId \in LoggedIds
                  /\ out.kind = "throw" =>
                        /\ out = fetchScrapedProducts(received[i].resp)
                        /\ scraperState.error = out.message
                        /\ Len(sent) = 3 /\ sent[3].source = "gemini"

\* of two tasks one was logged; the scrape failed and the logged one was set to error
C30_Witness ==
    /\ Finished /\ Len(received) = 3
    /\ received[2].source = "scraper" /\ received[2].out.kind = "throw"
    /\ Len(loggedTasks) = 2 /\ Cardinality(LoggedIds) = 1
    /\ Len(auditUpdates) = 1 /\ auditUpdates[1].status = "error"

====
